---- MODULE Spec2Model ----
(***************************************************************************)
(* NativeDeserializeDataTransform (native_data_source_deserializer.rs):    *)
(* the event()/process() state machine of the native scan-and-filter       *)
(* processor, its per-part initialisation and its per-page filter pipeline *)
(* (top-K pre-check, prewhere, runtime bloom filters, remaining columns,   *)
(* default values, virtual columns).                                       *)
(***************************************************************************)
EXTENDS Integers, Sequences, FiniteSets, TLC

\* ------------------------------------------------------------------ bounds
MaxParts == 2   \* parts delivered by upstream during one scan
MaxPages == 2   \* pages of one part
MaxBatch == 2   \* parts carried by one upstream block

\* ------------------------------------------------------------------ schema
\* src_schema: two projected table columns and, when the plan has virtual
\* columns, one virtual column appended after them (create(), lines 175-188).
SortCol == 0    \* "price": the top-K sort column
SrcCol  == 1    \* the variant column: source of the virtual column
VirtCol == 2    \* index of the virtual column in src_schema
NumProj == 2    \* block_reader.project_column_nodes.len() of a non-empty projection

Null    == 0 - 1   \* Scalar::Null
Missing == 0 - 2   \* a column that the built block does not hold

RealCols(c) == 0 .. (c.nproj - 1)

\* get_by_keypath(source, key_paths): a document without the key gives Null,
\* any other document the value stored under the key.
GetByKeypath(v) == IF v <= 0 THEN Null ELSE 3 - v

\* ------------------------------------------------------------------ pages
\* A page is a sequence of rows; a row is <<price, variant>>.
PagePool ==
  { << <<0, 2>>, <<1, 0>>, <<2, 1>>, <<0, 0>> >>,
    << <<1, 1>> >>,
    << <<2, 0>>, <<2, 2>> >> }

RECURSIVE SeqsUpTo(_, _)
SeqsUpTo(S, n) ==
  IF n = 0 THEN {<<>>}
  ELSE LET prev == SeqsUpTo(S, n - 1)
       IN  prev \cup {Append(q, x) : q \in {p \in prev : Len(p) = n - 1}, x \in S}

PageSeqs == {q \in SeqsUpTo(PagePool, MaxPages) : Len(q) >= 1}

RECURSIVE SumRows(_)
SumRows(pages) ==
  IF pages = <<>> THEN 0 ELSE Len(Head(pages)) + SumRows(Tail(pages))

\* The value of column c in row r of a decoded page (the virtual column's own
\* pages were generated from the source column when they were written).
Cell(pg, c, r) ==
  IF r > Len(pg) THEN Missing
  ELSE IF c = SortCol THEN pg[r][1]
  ELSE IF c = SrcCol THEN pg[r][2]
  ELSE GetByKeypath(pg[r][2])

ColumnOf(pg, c) == [r \in 1 .. Len(pg) |-> Cell(pg, c, r)]

SeqMin(col) == CHOOSE v \in {col[i] : i \in 1 .. Len(col)} :
                 \A i \in 1 .. Len(col) : v <= col[i]
SeqMax(col) == CHOOSE v \in {col[i] : i \in 1 .. Len(col)} :
                 \A i \in 1 .. Len(col) : v >= col[i]

RECURSIVE Concat(_)
Concat(pages) == IF pages = <<>> THEN <<>> ELSE Head(pages) \o Concat(Tail(pages))


\* ------------------------------------------------------------------ plans
\* What create() receives: the projection, the prewhere push-down (column set,
\* predicate, virtual columns used by it), the top-K, the virtual columns, the
\* runtime bloom filters the query context will hand out and the default
\* values of the block reader.
\* The predicate is "value of column fcol is in accept" (Null included or not).
NoPrewhere ==
  [on |-> FALSE, pcols |-> {}, pvirt |-> FALSE, fcol |-> SortCol, accept |-> {}]

PrewhereChoices ==
  { NoPrewhere,
    [on |-> TRUE, pcols |-> {SortCol}, pvirt |-> FALSE, fcol |-> SortCol, accept |-> {1, 2}],
    [on |-> TRUE, pcols |-> {SrcCol}, pvirt |-> FALSE, fcol |-> SrcCol, accept |-> {1, 2}],
    [on |-> TRUE, pcols |-> {SortCol, SrcCol}, pvirt |-> FALSE, fcol |-> SrcCol, accept |-> {0, 2}],
    [on |-> TRUE, pcols |-> {SrcCol}, pvirt |-> TRUE, fcol |-> VirtCol, accept |-> {Null}],
    [on |-> TRUE, pcols |-> {SrcCol}, pvirt |-> TRUE, fcol |-> VirtCol, accept |-> {1, 2}] }

NoTopK == [on |-> FALSE, limit |-> 1, asc |-> FALSE]
TopKChoices == { NoTopK, [on |-> TRUE, limit |-> 1, asc |-> FALSE] }

\* A filter whose column name is not in the schema carries col = NumProj + 1.
BloomChoices ==
  { <<>>,
    << [col |-> SrcCol, keys |-> {1}] >>,
    << [col |-> SortCol, keys |-> {1, 2}], [col |-> SrcCol, keys |-> {1, 2}] >>,
    << [col |-> NumProj + 1, keys |-> {}] >> }

DefaultChoices == { <<1, 0>>, <<1, 1>> }

EmptyProjection ==
  [nproj |-> 0, pw |-> NoPrewhere, topk |-> NoTopK, virt |-> FALSE,
   blooms |-> <<>>, defaults |-> <<1, 0>>]

Plans ==
  { [nproj |-> NumProj, pw |-> pw, topk |-> tk, virt |-> v, blooms |-> bl, defaults |-> d] :
      pw \in PrewhereChoices, tk \in TopKChoices, v \in BOOLEAN,
      bl \in BloomChoices, d \in DefaultChoices }

\* The plans explored: a virtual column in the prewhere is a virtual column of
\* the plan; the remaining combinations are thinned to keep the state space
\* small (virtual columns without top-K and bloom filters, the second set of
\* default values with virtual columns only, the filter on an unknown column
\* alone).
PlanOk(c) ==
  /\ c.pw.pvirt => c.virt
  /\ c.virt => (c.blooms = <<>> /\ ~c.topk.on)
  /\ c.defaults # <<1, 0>> => c.virt
  /\ (c.blooms # <<>> /\ c.blooms[1].col \notin 0 .. NumProj) => (~c.pw.on /\ ~c.topk.on)

Configs == {c \in Plans : PlanOk(c)} \cup {EmptyProjection}

\* create(), lines 148-173 and 189-196: the prewhere columns are those of the
\* push-down (all projected columns without one), plus the top-K column, plus
\* the virtual columns of the prewhere.
PrewhereColumns(c) ==
  (IF c.pw.on THEN c.pw.pcols ELSE RealCols(c))
    \cup (IF c.topk.on THEN {SortCol} ELSE {})
    \cup (IF c.pw.pvirt THEN {VirtCol} ELSE {})

SrcFields(c) == RealCols(c) \cup (IF c.virt THEN {VirtCol} ELSE {})

\* create(), lines 208-210
InitRemainColumns(c) == SrcFields(c) \ PrewhereColumns(c)

DefaultVal(c, col) == c.defaults[col + 1]

\* ------------------------------------------------------------------ parts
\* What the reader yields for one part: its pages, the columns that have page
\* readers in the chunk, and whether the part carries sort-key statistics.
\* A chunk of the AggIndex variant carries pre-aggregated data instead.
\* bad names the page of a column that fails to decode: <<column, page>>.
NoBad == <<>>
NoPart == [agg |-> FALSE, pages |-> <<>>, readers |-> {}, stats |-> FALSE, bad |-> NoBad]
AggPart == [agg |-> TRUE, pages |-> <<>>, readers |-> {}, stats |-> FALSE, bad |-> NoBad]

PartContents(c) ==
  { [agg |-> FALSE, pages |-> q, readers |-> R, stats |-> st, bad |-> NoBad] :
      q \in PageSeqs, R \in SUBSET SrcFields(c), st \in BOOLEAN }

ValidPart(c, p) ==
  \/ p = AggPart /\ c.nproj > 0
  \/ /\ p \in PartContents(c)
     /\ p.stats => (c.topk.on /\ SortCol \in p.readers)

NumsRows(p) == SumRows(p.pages)
SortMinMax(p) ==
  LET col == ColumnOf(Concat(p.pages), SortCol) IN <<SeqMin(col), SeqMax(col)>>

\* ------------------------------------------------------------- TopKSorter
\* data holds at most limit values, the worst one first: data[1] is the bound
\* once the sorter is full.
Better(asc, a, b) == IF asc THEN a < b ELSE a > b

SorterFull(tk, data) == Len(data) = tk.limit

RECURSIVE InsertSorted(_, _, _)
InsertSorted(asc, data, v) ==
  IF data = <<>> THEN <<v>>
  ELSE IF Better(asc, Head(data), v) THEN <<v>> \o data
  ELSE <<Head(data)>> \o InsertSorted(asc, Tail(data), v)

\* never_match_value
NeverMatchValue(tk, data, v) ==
  SorterFull(tk, data) /\ Better(tk.asc, data[1], v)

\* never_match((min, max))
NeverMatch(tk, data, mm) ==
  SorterFull(tk, data) /\
    ((tk.asc /\ data[1] < mm[1]) \/ (~tk.asc /\ data[1] > mm[2]))

\* never_match_any(col)
NeverMatchAny(tk, data, col) ==
  SorterFull(tk, data) /\ \A i \in 1 .. Len(col) : NeverMatchValue(tk, data, col[i])

\* One value offered to the sorter: [data, ok].
PushValue(tk, data, v) ==
  IF ~SorterFull(tk, data) THEN [data |-> InsertSorted(tk.asc, data, v), ok |-> TRUE]
  ELSE IF Better(tk.asc, v, data[1])
       THEN [data |-> InsertSorted(tk.asc, Tail(data), v), ok |-> TRUE]
       ELSE [data |-> data, ok |-> FALSE]

\* push_column_with_selection(col, selection, count): the values of the
\* selected rows are offered in order; the rows that did not enter are removed
\* from the selection. Gives [data, sel].
RECURSIVE PushColumnWithSelection(_, _, _, _)
PushColumnWithSelection(tk, data, col, sel) ==
  IF sel = <<>> THEN [data |-> data, sel |-> <<>>]
  ELSE LET r    == PushValue(tk, data, col[Head(sel)])
           rest == PushColumnWithSelection(tk, r.data, col, Tail(sel))
       IN  [data |-> rest.data,
            sel  |-> IF r.ok THEN <<Head(sel)>> \o rest.sel ELSE rest.sel]

\* push_column(col, bitmap) with every bit set
PushColumn(tk, data, col) ==
  PushColumnWithSelection(tk, data, col, [i \in 1 .. Len(col) |-> i]).data


\* --------------------------------------------------------------- helpers
Upd(f, k, v) == [x \in DOMAIN f \cup {k} |-> IF x = k THEN v ELSE f[x]]
SetMin(S) == CHOOSE x \in S : \A y \in S : x <= y

\* Option<Vec<..>> and Option<DataBlock>
None == [some |-> FALSE, v |-> <<>>]
Some(x) == [some |-> TRUE, v |-> x]
NoBlock == [kind |-> "none", rows |-> <<>>, offsets |-> <<>>]

\* ArrayIter::nth(skip) of an iterator that has consumed pos of n pages;
\* next() is nth(0). page is the 1-based index of the page returned.
Nth(pos, skip, n) ==
  IF pos + skip < n
  THEN [some |-> TRUE, page |-> pos + skip + 1, pos |-> pos + skip + 1]
  ELSE [some |-> FALSE, page |-> 0, pos |-> n]

\* All column iterators of one part yield the same number of pages.
NPages(cur, col) == Len(cur.pages)

\* The item the iterator of column x yields for page k is an Err.
Fails(cur, x, k) == cur.bad = <<x, k>>

\* ------------------------------------------------------- the page pipeline
\* One call of process() on an initialised part works on a record st:
\*   it, sk    array_iters (pages consumed per column), array_skip_pages
\*   rc, arr   read_columns, arrays (column -> index of the page decoded)
\*   data      the values held by the top-K sorter
\*   off, skp  offset_in_part, skipped_page
\*   rem       remain_columns
\*   cache     cached_bloom_runtime_filter
\*   exec      filter_executor.is_some()
\*   fill      need_to_fill_data
\*   sel       filtered_count with the executor's true selection
\*   ctl       "cont" while the call goes on, else how it returned:
\*             "skip", "finish", "emit", "panic", "error"
\*   kind      the return statement taken
\*   rows      the row count the call added to offset_in_part
\*   out       the block handed to add_block
\*   qry       calls of get_bloom_runtime_filter_with_id made by the call
\*   none      an iterator of the part returned None during the call
\*   bad       an iterator of the part yielded an Err during the call

\* a page skip that leaves array_skip_pages alone (used to test C4)
FinishProcessSkipPageNoSkipCount(st) == [st EXCEPT !.skp = @ + 1]

\* a page skip counted twice (used to test C22)
FinishProcessSkipPageTwice(st) ==
  [st EXCEPT !.skp = @ + 2,
             !.sk = [x \in DOMAIN st.sk |-> IF x \in st.rc THEN st.sk[x] ELSE st.sk[x] + 1]]

\* a page skip that also counts for the columns read in the step (used to test C34)
FinishProcessSkipPageAllColumns(st) ==
  [st EXCEPT !.skp = @ + 1, !.sk = [x \in DOMAIN st.sk |-> st.sk[x] + 1]]

\* finish_process_skip_page(), lines 530-539
FinishProcessSkipPage(st) ==
  [st EXCEPT !.skp = @ + 1,
             !.sk = [x \in DOMAIN st.sk |-> IF x \in st.rc THEN st.sk[x] ELSE st.sk[x] + 1]]

\* a page skip that does not count the page (used to test C9)
SkipPageNotCounted(st, n, kind) ==
  [st EXCEPT !.off = @ + n, !.rows = n, !.ctl = "skip", !.kind = kind,
             !.sk = [x \in DOMAIN st.sk |-> IF x \in st.rc THEN st.sk[x] ELSE st.sk[x] + 1]]

SkipPage(st, n, kind) ==
  FinishProcessSkipPage([st EXCEPT !.off = @ + n, !.rows = n, !.ctl = "skip", !.kind = kind])

\* Step 1, lines 792-815
TopKPreCheck(c, cur, st) ==
  IF Cardinality(PrewhereColumns(c)) > 1 /\ c.topk.on /\ SortCol \in DOMAIN st.it
  THEN LET n == Nth(st.it[SortCol], 0, NPages(cur, SortCol)) IN
       IF ~n.some THEN [st EXCEPT !.ctl = "finish", !.kind = "exhausted", !.none = TRUE]
       ELSE IF Fails(cur, SortCol, n.page)
       THEN \* `array?`, line 798
            [st EXCEPT !.it = Upd(st.it, SortCol, n.pos),
                       !.ctl = "error", !.kind = "decode_error", !.bad = TRUE]
       ELSE LET col == ColumnOf(cur.pages[n.page], SortCol)
                st1 == [st EXCEPT !.it = Upd(st.it, SortCol, n.pos),
                                  !.rc = st.rc \cup {SortCol},
                                  !.arr = Upd(st.arr, SortCol, n.page)]
            IN  IF NeverMatchAny(c.topk, st.data, col)
                THEN SkipPage(st1, Len(col), "topk_page_skip")
                ELSE st1
  ELSE st

\* column loops that read with next() whatever the skip count (used to test C26)
ReadColumnsNoSkip(cur, st, cols) ==
  LET todo   == {x \in cols : x \in DOMAIN st.it}
      res(x) == Nth(st.it[x], 0, NPages(cur, x))
  IN  IF \E x \in todo : ~res(x).some
      THEN [st EXCEPT !.ctl = "finish", !.kind = "exhausted", !.none = TRUE]
      ELSE [st EXCEPT
              !.it = [x \in DOMAIN st.it |-> IF x \in todo THEN res(x).pos ELSE st.it[x]],
              !.sk = [x \in DOMAIN st.sk |-> IF x \in todo THEN 0 ELSE st.sk[x]],
              !.rc = st.rc \cup todo,
              !.arr = [x \in DOMAIN st.arr \cup todo |->
                         IF x \in todo THEN res(x).page ELSE st.arr[x]],
              !.fill = st.fill \/ (cols \ DOMAIN st.it # {})]

\* The loops of Step 2 (lines 819-840) and Step 5 (lines 909-926) over the
\* columns cols: a column with an iterator is read with nth(skip) and its skip
\* count reset; the first exhausted iterator ends the part; a column without
\* an iterator asks for default filling.
ReadColumns(cur, st, cols) ==
  LET todo   == {x \in cols : x \in DOMAIN st.it}
      res(x) == Nth(st.it[x], st.sk[x], NPages(cur, x))
      failing == {x \in todo : res(x).some /\ Fails(cur, x, res(x).page)}
  IN  IF \E x \in todo : ~res(x).some
      THEN [st EXCEPT !.ctl = "finish", !.kind = "exhausted", !.none = TRUE]
      ELSE IF failing # {}
      THEN \* `array?`, lines 829 and 916: the columns before the failing one were read
           [st EXCEPT
              !.it = [x \in DOMAIN st.it |->
                        IF x \in todo /\ x <= SetMin(failing) THEN res(x).pos ELSE st.it[x]],
              !.ctl = "error", !.kind = "decode_error", !.bad = TRUE]
      ELSE [st EXCEPT
              !.it = [x \in DOMAIN st.it |-> IF x \in todo THEN res(x).pos ELSE st.it[x]],
              !.sk = [x \in DOMAIN st.sk |-> IF x \in todo THEN 0 ELSE st.sk[x]],
              !.rc = st.rc \cup todo,
              !.arr = [x \in DOMAIN st.arr \cup todo |->
                         IF x \in todo THEN res(x).page ELSE st.arr[x]],
              !.fill = st.fill \/ (cols \ DOMAIN st.it # {})]

\* Step 2
ReadPrewhere(c, cur, st) == ReadColumns(cur, st, PrewhereColumns(c) \ st.rc)

\* build_block(arrays, default_val_indices): num_rows is the length of the
\* arrays of the projected columns, 0 when there is none.
BuiltRows(c, cur, arr) ==
  LET real == DOMAIN arr \cap RealCols(c)
  IN  IF real = {} THEN 0 ELSE Len(cur.pages[arr[SetMin(real)]])

\* add_virtual_columns, lines 337-345: a block that has columns but no rows
\* takes its row count from the virtual column's own array.
RowsWithVirtual(c, cur, arr, hasVirt, ncols, rows0) ==
  IF hasVirt /\ VirtCol \in DOMAIN arr /\ ncols > 0 /\ rows0 = 0
  THEN Len(cur.pages[arr[VirtCol]])
  ELSE rows0

\* The value of column x in row r of the prewhere block (Step 2 and lines
\* 849-861): a decoded array, the default scalar, or for the virtual column
\* its own array or get_by_keypath of the source column of the block.
PrewhereVal(c, cur, st, x, r) ==
  LET real(y) == IF y \in DOMAIN st.arr THEN Cell(cur.pages[st.arr[y]], y, r)
                 ELSE IF y \in PrewhereColumns(c) THEN DefaultVal(c, y)
                 ELSE Missing
  IN  IF x # VirtCol THEN real(x)
      ELSE IF VirtCol \in DOMAIN st.arr THEN Cell(cur.pages[st.arr[VirtCol]], VirtCol, r)
      ELSE GetByKeypath(real(SrcCol))

\* FilterExecutor::select: the rows of the block that satisfy the predicate
Select(c, cur, st, n) ==
  SelectSeq([r \in 1 .. n |-> r],
            LAMBDA r : PrewhereVal(c, cur, st, c.pw.fcol, r) \in c.pw.accept)

\* Step 4 offering every row of the page to the sorter (used to test C29)
PrewhereEvalPushesAll(c, cur, st) ==
  IF ~c.pw.on \/ DOMAIN st.arr = {} THEN st
  ELSE
    LET PC    == PrewhereColumns(c)
        ncols == Cardinality(PC \cap RealCols(c))
        rows  == RowsWithVirtual(c, cur, st.arr, c.pw.pvirt, ncols,
                                 BuiltRows(c, cur, st.arr))
        sel0  == Select(c, cur, st, rows)
    IN  IF c.pw.pvirt /\ VirtCol \notin DOMAIN st.arr /\ SrcCol \notin PC
        THEN [st EXCEPT !.ctl = "panic", !.kind = "source_not_in_prewhere_schema"]
        ELSE IF sel0 = <<>> THEN SkipPage(st, rows, "prewhere_skip")
        ELSE IF ~c.topk.on THEN [st EXCEPT !.sel = Some(sel0)]
        ELSE IF SortCol \notin DOMAIN st.arr
        THEN \* the sort column of the block is a default scalar: as_column() is None
             [st EXCEPT !.ctl = "panic", !.kind = "topk_column_is_scalar"]
        ELSE LET col == [i \in 1 .. rows |-> Cell(cur.pages[st.arr[SortCol]], SortCol, i)]
                 all == PushColumnWithSelection(c.topk, st.data, col,
                                                [i \in 1 .. rows |-> i])
                 r   == [data |-> all.data,
                         sel  |-> SelectSeq(sel0, LAMBDA x :
                                    \E k \in 1 .. Len(all.sel) : all.sel[k] = x)]
                 st1 == [st EXCEPT !.data = r.data]
             IN  IF r.sel = <<>> THEN SkipPage(st1, rows, "topk_row_skip")
                 ELSE [st1 EXCEPT !.sel = Some(r.sel)]

\* Steps 3 and 4, lines 842-899
PrewhereEval(c, cur, st) ==
  IF ~c.pw.on \/ DOMAIN st.arr = {} THEN st
  ELSE
    LET PC    == PrewhereColumns(c)
        ncols == Cardinality(PC \cap RealCols(c))
        rows  == RowsWithVirtual(c, cur, st.arr, c.pw.pvirt, ncols,
                                 BuiltRows(c, cur, st.arr))
        sel0  == Select(c, cur, st, rows)
    IN  IF c.pw.pvirt /\ VirtCol \notin DOMAIN st.arr /\ SrcCol \notin PC
        THEN [st EXCEPT !.ctl = "panic", !.kind = "source_not_in_prewhere_schema"]
        ELSE IF sel0 = <<>> THEN SkipPage(st, rows, "prewhere_skip")
        ELSE IF ~c.topk.on THEN [st EXCEPT !.sel = Some(sel0)]
        ELSE IF SortCol \notin DOMAIN st.arr
        THEN \* the sort column of the block is a default scalar: as_column() is None
             [st EXCEPT !.ctl = "panic", !.kind = "topk_column_is_scalar"]
        ELSE LET col == [i \in 1 .. rows |-> Cell(cur.pages[st.arr[SortCol]], SortCol, i)]
                 r   == PushColumnWithSelection(c.topk, st.data, col, sel0)
                 st1 == [st EXCEPT !.data = r.data]
             IN  IF r.sel = <<>> THEN SkipPage(st1, rows, "topk_row_skip")
                 ELSE [st1 EXCEPT !.sel = Some(r.sel)]


\* bloom_runtime_filter, lines 549-566: the filters of the query context whose
\* column is in src_schema, cached once there is at least one.
ResolveBloomFilters(c, cache) ==
  IF cache.some THEN cache
  ELSE LET fl == SelectSeq(c.blooms, LAMBDA f : f.col \in SrcFields(c))
       IN  IF fl = <<>> THEN None ELSE Some(fl)

\* lines 614-646: the bitmaps are ANDed and refine the selection
\* (select_bitmap) or found it (from_bitmap).
CombineBitmaps(st, bitmaps) ==
  IF bitmaps = <<>> THEN st
  ELSE LET n     == Len(bitmaps[1])
           rf(r) == \A i \in 1 .. Len(bitmaps) : r <= Len(bitmaps[i]) => bitmaps[i][r]
           sel   == IF st.sel.some
                    THEN SelectSeq(st.sel.v, LAMBDA r : r <= n /\ rf(r))
                    ELSE SelectSeq([r \in 1 .. n |-> r], rf)
       IN  [st EXCEPT !.exec = TRUE, !.sel = Some(sel)]

\* lines 569-613: one filter after the other
RECURSIVE BloomLoop(_, _, _, _, _)
BloomLoop(c, cur, st, filters, bitmaps) ==
  IF filters = <<>> THEN CombineBitmaps(st, bitmaps)
  ELSE
    LET f     == Head(filters)
        read  == f.col \notin DOMAIN st.arr /\ f.col \in DOMAIN st.it
        n     == Nth(st.it[f.col], st.sk[f.col], NPages(cur, f.col))
        st1   == IF read
                 THEN [st EXCEPT !.it = Upd(st.it, f.col, n.pos),
                                 !.sk = Upd(st.sk, f.col, 0),
                                 !.rem = st.rem \ {f.col},
                                 !.rc = st.rc \cup {f.col},
                                 !.arr = Upd(st.arr, f.col, n.page)]
                 ELSE st
    IN  IF read /\ ~n.some THEN [st EXCEPT !.kind = "bloom_exhausted", !.none = TRUE]
        ELSE IF read /\ Fails(cur, f.col, n.page)
        THEN \* `array.as_ref().unwrap()`, line 585
             [st EXCEPT !.it = Upd(st.it, f.col, n.pos),
                        !.ctl = "panic", !.kind = "bloom_array_unwrap", !.bad = TRUE]
        ELSE IF f.col \notin DOMAIN st1.arr
        THEN \* probe block without a column: get_last_column() has nothing to return
             [st EXCEPT !.ctl = "panic", !.kind = "probe_block_empty"]
        ELSE LET col    == ColumnOf(cur.pages[st1.arr[f.col]], f.col)
                 bitmap == [r \in 1 .. Len(col) |-> col[r] \in f.keys]
                 unset  == Cardinality({r \in 1 .. Len(col) : ~bitmap[r]})
             IN  IF unset = Len(col) THEN SkipPage(st1, Len(col), "bloom_skip")
                 ELSE BloomLoop(c, cur, st1, Tail(filters),
                                IF unset # 0 THEN Append(bitmaps, bitmap) ELSE bitmaps)

\* bloom_runtime_filter, lines 542-647
BloomRuntimeFilter(c, cur, st) ==
  LET cache == ResolveBloomFilters(c, st.cache)
      asked == IF st.cache.some THEN 0 ELSE 1
  IN  IF ~cache.some THEN [st EXCEPT !.qry = asked]
      ELSE BloomLoop(c, cur, [st EXCEPT !.cache = cache, !.qry = asked], cache.v, <<>>)

\* Step 5
ReadRemain(c, cur, st) == ReadColumns(cur, st, st.rem)

\* a block whose absent columns are never filled (used to test C5)
FullValNoFill(c, cur, st, ids, x, r) ==
  LET real(y) == IF y \in DOMAIN st.arr THEN Cell(cur.pages[st.arr[y]], y, r)
                 ELSE Missing
  IN  IF x # VirtCol THEN real(x)
      ELSE IF VirtCol \in DOMAIN st.arr THEN Cell(cur.pages[st.arr[VirtCol]], VirtCol, r)
      ELSE GetByKeypath(real(SrcCol))

\* The value of column x in row r of the block of Steps 5-7: a decoded array,
\* else the default value when fill_missing_native_column_values ran and the
\* column was not read for this part; the virtual column is its own array or
\* get_by_keypath of the source column of the block.
FullVal(c, cur, st, ids, x, r) ==
  LET real(y) == IF y \in DOMAIN st.arr THEN Cell(cur.pages[st.arr[y]], y, r)
                 ELSE IF st.fill /\ y \notin ids THEN DefaultVal(c, y)
                 ELSE Missing
  IN  IF x # VirtCol THEN real(x)
      ELSE IF VirtCol \in DOMAIN st.arr THEN Cell(cur.pages[st.arr[VirtCol]], VirtCol, r)
      ELSE GetByKeypath(real(SrcCol))

\* a block handed on without taking the selection (used to test C6)
MaterializeNoTake(c, cur, st, ids) ==
  LET filled == (DOMAIN st.arr \cap RealCols(c))
                  \cup (IF st.fill THEN RealCols(c) \ ids ELSE {})
      rows   == RowsWithVirtual(c, cur, st.arr, c.virt, Cardinality(filled),
                                BuiltRows(c, cur, st.arr))
      row(r) == [x \in SrcFields(c) |-> FullVal(c, cur, st, ids, x, r)]
      block  == [kind    |-> "page",
                 rows    |-> [i \in 1 .. rows |-> row(i)],
                 offsets |-> [i \in 1 .. rows |-> st.off + i - 1]]
  IN  [st EXCEPT !.off = @ + rows, !.rows = rows, !.ctl = "emit",
                 !.kind = IF DOMAIN st.arr = {} THEN "nothing_read" ELSE "emit",
                 !.out = block]

\* offset_in_part advanced by the filtered row count (used to test C7)
MaterializeFilteredOffset(c, cur, st, ids) ==
  LET filled == (DOMAIN st.arr \cap RealCols(c))
                  \cup (IF st.fill THEN RealCols(c) \ ids ELSE {})
      rows   == RowsWithVirtual(c, cur, st.arr, c.virt, Cardinality(filled),
                                BuiltRows(c, cur, st.arr))
      row(r) == [x \in SrcFields(c) |-> FullVal(c, cur, st, ids, x, r)]
      idx    == IF st.sel.some THEN st.sel.v ELSE [r \in 1 .. rows |-> r]
      block  == [kind    |-> "page",
                 rows    |-> [i \in 1 .. Len(idx) |-> row(idx[i])],
                 offsets |-> [i \in 1 .. Len(idx) |-> st.off + idx[i] - 1]]
  IN  [st EXCEPT !.off = @ + Len(idx), !.rows = Len(idx), !.ctl = "emit",
                 !.kind = IF DOMAIN st.arr = {} THEN "nothing_read" ELSE "emit",
                 !.out = block]

\* Steps 5-9, lines 928-980: build, fill, add virtual columns, take the
\* selection, attach the row offsets, advance offset_in_part, add_block.
Materialize(c, cur, st, ids) ==
  LET filled == (DOMAIN st.arr \cap RealCols(c))
                  \cup (IF st.fill THEN RealCols(c) \ ids ELSE {})
      rows   == RowsWithVirtual(c, cur, st.arr, c.virt, Cardinality(filled),
                                BuiltRows(c, cur, st.arr))
      row(r) == [x \in SrcFields(c) |-> FullVal(c, cur, st, ids, x, r)]
      idx    == IF st.sel.some THEN st.sel.v ELSE [r \in 1 .. rows |-> r]
      block  == [kind    |-> "page",
                 rows    |-> [i \in 1 .. Len(idx) |-> row(idx[i])],
                 offsets |-> [i \in 1 .. Len(idx) |-> st.off + idx[i] - 1]]
  IN  [st EXCEPT !.off = @ + rows, !.rows = rows, !.ctl = "emit",
                 !.kind = IF DOMAIN st.arr = {} THEN "nothing_read" ELSE "emit",
                 !.out = block]

\* a call that goes on with the next page after the first (used to test C15)
RunPageTwoPages(c, cur, st0, ids) ==
  LET one(st) ==
        LET s1 == TopKPreCheck(c, cur, st)
            s2 == IF s1.ctl = "cont" THEN ReadPrewhere(c, cur, s1) ELSE s1
            s3 == IF s2.ctl = "cont" THEN PrewhereEval(c, cur, s2) ELSE s2
            s4 == IF s3.ctl = "cont" THEN BloomRuntimeFilter(c, cur, s3) ELSE s3
            s5 == IF s4.ctl = "cont" THEN ReadRemain(c, cur, s4) ELSE s4
        IN  IF s5.ctl = "cont" THEN Materialize(c, cur, s5, ids) ELSE s5
      a == one(st0)
      b == one([a EXCEPT !.ctl = "cont", !.kind = "", !.rc = st0.rc, !.arr = st0.arr,
                         !.sel = st0.sel, !.fill = st0.fill, !.rows = 0,
                         !.out = st0.out])
  IN  IF a.ctl = "skip" /\ b.ctl \in {"skip", "emit"} THEN b ELSE a

\* The page step of process(), lines 788-980
RunPage(c, cur, st0, ids) ==
  LET s1 == TopKPreCheck(c, cur, st0)
      s2 == IF s1.ctl = "cont" THEN ReadPrewhere(c, cur, s1) ELSE s1
      s3 == IF s2.ctl = "cont" THEN PrewhereEval(c, cur, s2) ELSE s2
      s4 == IF s3.ctl = "cont" THEN BloomRuntimeFilter(c, cur, s3) ELSE s3
      s5 == IF s4.ctl = "cont" THEN ReadRemain(c, cur, s4) ELSE s4
  IN  IF s5.ctl = "cont" THEN Materialize(c, cur, s5, ids) ELSE s5


\* ------------------------------------------------------------------ state
VARIABLES
  cfg,                \* the plan the transform was created with
  input,              \* input port: [data, finished, need]
  output,             \* output port: [data, finished, need]
  output_data,        \* Option<DataBlock>
  parts,              \* VecDeque<PartInfoPtr>: the ids of the pending parts
  chunks,             \* VecDeque<NativeDataSource>: the ids of their chunks
  cur,                \* what the front chunk's readers yield, once opened
  remain_columns,
  skipped_page,
  offset_in_part,
  read_columns,
  read_column_ids,
  sorter,             \* top_k: the values held by the TopKSorter
  inited,
  array_iters,        \* column -> pages consumed from its ArrayIter
  array_skip_pages,   \* column -> pages to skip
  cached_bloom_runtime_filter,
  has_filter_executor,
  status,             \* "ok", "panic" or "error": how the last process() call ended
  directive,          \* what the last event() returned, "none" after process()
  delivered,          \* parts sent by upstream so far
  page_no,            \* pages of the front part handled so far
  emitted,            \* rows of the blocks staged for the front part so far
  last,               \* what the last process() call did
  staged,             \* <<part, page>> of the block held by output_data
  pushed,             \* <<part, page>> of the block pushed last to the output port
  queries,            \* calls of the bloom-filter provider for the front part
  hook,               \* hook_refresh (refresh_hook.rs) and its on-finished callback
  gb,                 \* TransformPartialGroupBy (transform_group_by_partial.rs)
  mem                 \* MmapAllocator (mmap_allocator.rs) and its live blocks

vars ==
  << cfg, input, output, output_data, parts, chunks, cur, remain_columns,
     skipped_page, offset_in_part, read_columns, read_column_ids, sorter, inited,
     array_iters, array_skip_pages, cached_bloom_runtime_filter,
     has_filter_executor, status, directive, delivered, page_no, emitted, last,
     staged, pushed, queries, hook, gb, mem >>

transformVars ==
  << output_data, parts, chunks, cur, remain_columns, skipped_page,
     offset_in_part, read_columns, read_column_ids, sorter, inited, array_iters,
     array_skip_pages, cached_bloom_runtime_filter, has_filter_executor, status,
     page_no, emitted, last, staged, pushed, queries >>

NoTag == <<0, 0>>

\* refresh_hook.rs: hook_refresh has not been called
NotHooked ==
  [pc |-> "new", empty |-> FALSE, vc |-> FALSE, may |-> "none", run |-> <<>>,
   ret |-> "none"]

\* transform_group_by_partial.rs: no call of transform() or on_finish() yet
NoCall == [op |-> "none", result |-> "none", entered |-> "none", blocks |-> 0]

\* transform_group_by_partial.rs: try_create has not been called
NotCreated ==
  [pc |-> "new", support |-> FALSE, convert_threshold |-> 0,
   hash_table |-> [kind |-> "MovedOut", keys |-> {}], last |-> NoCall]

\* mmap_allocator.rs: no call of the allocator yet
NoAlloc ==
  [op |-> "none", result |-> "none", used |-> "none", owner |-> "none",
   copied |-> 0, dst |-> 0]

\* mmap_allocator.rs: MmapAllocator::new has not been called
NoAllocator == [pc |-> "new", debug |-> FALSE, blocks |-> <<>>, last |-> NoAlloc]

EmptyFn == [x \in {} |-> 0]

NoStep ==
  [kind |-> "none", ctl |-> "none", page |-> 0, pageRows |-> 0, rows |-> 0,
   offBefore |-> 0, skpBefore |-> 0, dataBefore |-> <<>>, out |-> NoBlock,
   refCtl |-> "none", refOut |-> NoBlock, part |-> NoPart, total |-> 0,
   partsBefore |-> <<>>, jumped |-> FALSE, firstCall |-> FALSE,
   sawNone |-> FALSE, decodeFailed |-> FALSE]

\* create(), lines 245-284
Init ==
  /\ cfg \in Configs
  /\ input = [data |-> None, finished |-> FALSE, need |-> FALSE]
  /\ output = [data |-> None, finished |-> FALSE, need |-> FALSE]
  /\ output_data = None
  /\ parts = <<>>
  /\ chunks = <<>>
  /\ cur = NoPart
  /\ remain_columns = InitRemainColumns(cfg)
  /\ skipped_page = 0
  /\ offset_in_part = 0
  /\ read_columns = {}
  /\ read_column_ids = {}
  /\ sorter = <<>>
  /\ inited = FALSE
  /\ array_iters = EmptyFn
  /\ array_skip_pages = EmptyFn
  /\ cached_bloom_runtime_filter = None
  /\ has_filter_executor = cfg.pw.on
  /\ status = "ok"
  /\ directive = "none"
  /\ delivered = 0
  /\ page_no = 0
  /\ emitted = 0
  /\ last = NoStep
  /\ staged = NoTag
  /\ pushed = NoTag
  /\ queries = 0
  /\ hook = NotHooked
  /\ gb = NotCreated
  /\ mem = NoAllocator

\* ------------------------------------------------------------------ ports
InputHasData == input.data.some
OutputCanPush == output.need /\ ~output.data.some

\* What event() reads and writes: the two ports, output_data, parts, chunks,
\* and the directive it returns.
PortState ==
  [input |-> input, output |-> output, output_data |-> output_data,
   parts |-> parts, chunks |-> chunks, directive |-> directive]

\* a downstream finish that is not passed on upstream (used to test C17)
EvOutputFinishedKeepsInput(s) == [s EXCEPT !.directive = "Finished"]

\* lines 660-663
EvOutputFinished(s) ==
  [s EXCEPT !.input.finished = TRUE, !.directive = "Finished"]

\* lines 665-668
EvCannotPush(s) ==
  [s EXCEPT !.input.need = FALSE, !.directive = "NeedConsume"]

\* lines 670-673
EvPushOutput(s) ==
  [s EXCEPT !.output.data = s.output_data, !.output_data = None,
            !.directive = "NeedConsume"]

\* pending chunks given up once upstream has finished (used to test C12)
EvChunksPendingOrFinished(s) ==
  IF s.input.finished
  THEN [s EXCEPT !.output.finished = TRUE, !.directive = "Finished"]
  ELSE [s EXCEPT !.input.need = IF ~s.input.data.some THEN TRUE ELSE @,
                 !.directive = "Sync"]

\* lines 675-680
EvChunksPending(s) ==
  [s EXCEPT !.input.need = IF ~s.input.data.some THEN TRUE ELSE @,
            !.directive = "Sync"]

\* a pull that keeps the parts and drops their chunks (used to test C11)
EvPullInputNoChunks(s) ==
  [s EXCEPT !.parts = s.input.data.v,
            !.input.data = None, !.input.need = FALSE, !.directive = "Sync"]

\* lines 682-693: pull_data() takes the block and the need-data flag with it
EvPullInput(s) ==
  [s EXCEPT !.parts = s.input.data.v, !.chunks = s.input.data.v,
            !.input.data = None, !.input.need = FALSE, !.directive = "Sync"]

\* an upstream finish that is not passed on downstream (used to test C18)
EvInputFinishedKeepsOutput(s) == [s EXCEPT !.directive = "Finished"]

\* lines 695-699
EvInputFinished(s) ==
  [s EXCEPT !.output.finished = TRUE, !.directive = "Finished"]

\* NeedData returned without asking the input port (used to test C13)
EvNeedDataNoSignal(s) == [s EXCEPT !.directive = "NeedData"]

\* lines 701-702
EvNeedData(s) ==
  [s EXCEPT !.input.need = TRUE, !.directive = "NeedData"]

\* event() that looks at the chunk queue before the staged block (used to test C14)
EventOfSyncFirst(s) ==
  IF s.output.finished THEN EvOutputFinished(s)
  ELSE IF ~(s.output.need /\ ~s.output.data.some) THEN EvCannotPush(s)
  ELSE IF s.chunks # <<>> THEN EvChunksPending(s)
  ELSE IF s.output_data.some THEN EvPushOutput(s)
  ELSE IF s.input.data.some THEN EvPullInput(s)
  ELSE IF s.input.finished THEN EvInputFinished(s)
  ELSE EvNeedData(s)

\* event() that pulls the input block before it looks at the chunk queue
\* (used to test C16)
EventOfPullFirst(s) ==
  IF s.output.finished THEN EvOutputFinished(s)
  ELSE IF ~(s.output.need /\ ~s.output.data.some) THEN EvCannotPush(s)
  ELSE IF s.output_data.some THEN EvPushOutput(s)
  ELSE IF s.input.data.some THEN EvPullInput(s)
  ELSE IF s.chunks # <<>> THEN EvChunksPending(s)
  ELSE IF s.input.finished THEN EvInputFinished(s)
  ELSE EvNeedData(s)

\* event() that looks at the finished input port before the staged block and
\* the chunk queue (used to test C36)
EventOfFinishedFirst(s) ==
  IF s.output.finished THEN EvOutputFinished(s)
  ELSE IF ~(s.output.need /\ ~s.output.data.some) THEN EvCannotPush(s)
  ELSE IF s.input.finished THEN EvInputFinished(s)
  ELSE IF s.output_data.some THEN EvPushOutput(s)
  ELSE IF s.chunks # <<>> THEN EvChunksPending(s)
  ELSE IF s.input.data.some THEN EvPullInput(s)
  ELSE EvNeedData(s)

\* event(), lines 659-703, on the port state s
EventOf(s) ==
  IF s.output.finished THEN EvOutputFinished(s)
  ELSE IF ~(s.output.need /\ ~s.output.data.some) THEN EvCannotPush(s)
  ELSE IF s.output_data.some THEN EvPushOutput(s)
  ELSE IF s.chunks # <<>> THEN EvChunksPending(s)
  ELSE IF s.input.data.some THEN EvPullInput(s)
  ELSE IF s.input.finished THEN EvInputFinished(s)
  ELSE EvNeedData(s)

\* event(), lines 659-703. The directive is kept for the scheduler; the record
\* of the last process() call is dropped.
Event ==
  /\ status = "ok"
  /\ directive \notin {"Sync", "Finished"}
  /\ last' = NoStep
  /\ \E r \in {EventOf(PortState)} :
       /\ input' = r.input
       /\ output' = r.output
       /\ output_data' = r.output_data
       /\ parts' = r.parts
       /\ chunks' = r.chunks
       /\ directive' = r.directive
       /\ pushed' = IF r.output.data # output.data THEN staged ELSE pushed
       /\ staged' = IF r.output_data.some THEN staged ELSE NoTag
  /\ UNCHANGED << hook, gb, mem, cfg, cur, remain_columns, skipped_page, offset_in_part,
                  read_columns, read_column_ids, sorter, inited, array_iters,
                  array_skip_pages, cached_bloom_runtime_filter,
                  has_filter_executor, status, delivered, page_no, emitted,
                  queries >>

\* The upstream source pushes a block whose meta holds the next parts.
UpstreamPush ==
  /\ input.need /\ ~input.data.some /\ ~input.finished
  /\ \E k \in 1 .. MaxBatch :
       /\ delivered + k <= MaxParts
       /\ input' = [input EXCEPT !.data = Some([i \in 1 .. k |-> delivered + i])]
       /\ delivered' = delivered + k
  /\ UNCHANGED << hook, gb, mem, cfg, output, directive >>
  /\ UNCHANGED transformVars

\* The upstream source has no more parts.
UpstreamFinish ==
  /\ ~input.finished /\ ~input.data.some
  /\ input' = [input EXCEPT !.finished = TRUE]
  /\ UNCHANGED << hook, gb, mem, cfg, output, directive, delivered >>
  /\ UNCHANGED transformVars

\* The downstream processor asks for a block.
DownstreamNeed ==
  /\ ~output.finished /\ ~output.need
  /\ output' = [output EXCEPT !.need = TRUE]
  /\ UNCHANGED << hook, gb, mem, cfg, input, directive, delivered >>
  /\ UNCHANGED transformVars

\* The downstream processor pulls the block of the port.
DownstreamPull ==
  /\ output.data.some
  /\ output' = [output EXCEPT !.data = None, !.need = FALSE]
  /\ UNCHANGED << hook, gb, mem, cfg, input, directive, delivered >>
  /\ UNCHANGED transformVars

\* The downstream processor finishes its input (a satisfied LIMIT).
DownstreamFinish ==
  /\ ~output.finished
  /\ output' = [output EXCEPT !.finished = TRUE]
  /\ UNCHANGED << hook, gb, mem, cfg, input, directive, delivered >>
  /\ UNCHANGED transformVars


\* ---------------------------------------------------------------- process
\* What the reader of the front chunk may yield under plan c.
PartChoices(c) == {p \in PartContents(c) \cup {AggPart} : ValidPart(c, p)}

\* `chunks.is_empty()` of line 718: the chunk holds one entry per projected
\* column (with or without readers) and one per generated virtual column.
ChunkIsEmpty(c, p) == c.nproj = 0 /\ VirtCol \notin p.readers

\* The prewhere predicate on the one-row block of default values built by
\* check_default_values (lines 401-428) from default_vals[index] of every
\* prewhere column.
DefaultRowPasses(c) == DefaultVal(c, c.pw.fcol) \in c.pw.accept

\* a default-value check that never asks to skip the part (used to test C2)
CheckDefaultValuesNeverSkips(c, p, iters, data) ==
  [skip |-> FALSE, data |-> data, panic |-> FALSE]

\* check_default_values(), lines 375-451: [skip, data, panic]
\* default_vals holds one value per projected column, so that line 406 indexes
\* past its end for the index of a prewhere virtual column.
CheckDefaultValues(c, p, iters, data) ==
  LET PC == PrewhereColumns(c)
      sortDefault == c.topk.on /\ SortCol \notin DOMAIN iters
      allDefaults == \A x \in PC : x \notin DOMAIN iters
      allVirtualDefaults == c.pw.pvirt => SrcCol \notin DOMAIN iters
  IN  IF Cardinality(PC) > 1 /\ sortDefault
         /\ NeverMatchValue(c.topk, data, DefaultVal(c, SortCol))
      THEN [skip |-> TRUE, data |-> data, panic |-> FALSE]
      ELSE IF c.pw.on /\ allDefaults /\ allVirtualDefaults
      THEN IF \E x \in PC : x \notin RealCols(c)
           THEN [skip |-> FALSE, data |-> data, panic |-> TRUE]
           ELSE IF ~DefaultRowPasses(c) THEN [skip |-> TRUE, data |-> data, panic |-> FALSE]
           ELSE IF sortDefault
           THEN [skip |-> FALSE,
                 data |-> PushColumn(c.topk, data,
                            [i \in 1 .. NumsRows(p) |-> DefaultVal(c, SortCol)]),
                 panic |-> FALSE]
           ELSE [skip |-> FALSE, data |-> data, panic |-> FALSE]
      ELSE [skip |-> FALSE, data |-> data, panic |-> FALSE]

\* build_default_values_block plus the Null virtual columns, lines 472-483
DefaultRow(c) ==
  [x \in SrcFields(c) |-> IF x = VirtCol THEN Null ELSE DefaultVal(c, x)]

\* a default block of one row whatever the part holds (used to test C28)
DefaultValuesBlockOneRow(c, p) ==
  [kind |-> "default", rows |-> <<DefaultRow(c)>>, offsets |-> <<>>]

DefaultValuesBlock(c, p) ==
  [kind |-> "default", rows |-> [i \in 1 .. NumsRows(p) |-> DefaultRow(c)],
   offsets |-> <<>>]

\* DataBlock::new(vec![], num_rows), line 518
EmptyBlock(p) ==
  [kind |-> "empty", rows |-> [i \in 1 .. NumsRows(p) |-> <<>>], offsets |-> <<>>]

\* the block deserialized from an aggregating-index chunk, line 710
AggBlock == [kind |-> "agg", rows |-> << <<>> >>, offsets |-> <<>>]

\* add_block() that also drops a block of one row (used to test C1)
AddBlockDropsSingleRow(old, block) == IF Len(block.rows) <= 1 THEN old ELSE Some(block)

\* add_block(), lines 300-312: a block without rows is dropped
AddBlock(old, block) == IF Len(block.rows) = 0 THEN old ELSE Some(block)

\* an initialisation that goes on after its checks said to skip (used to test C8)
InitPartNoSkip(c, p, data) ==
  [ctl |-> IF p.readers = {} THEN "default" ELSE "cont",
   kind |-> IF p.readers = {} THEN "all_default" ELSE "",
   iters |-> [x \in p.readers |-> 0], ids |-> p.readers \cap RealCols(c), data |-> data]

\* The initialisation of a part, lines 723-786, up to the point where the
\* page step starts: [ctl, kind, iters, ids, data]
InitPart(c, p, data) ==
  LET iters == [x \in p.readers |-> 0]
      ids   == p.readers \cap RealCols(c)
      chk   == CheckDefaultValues(c, p, iters, data)
  IN  IF c.topk.on /\ p.stats /\ NeverMatch(c.topk, data, SortMinMax(p))
      THEN [ctl |-> "finish", kind |-> "part_skip_min_max",
            iters |-> EmptyFn, ids |-> {}, data |-> data]
      ELSE IF RealCols(c) \ p.readers # {} /\ chk.panic
      THEN [ctl |-> "panic", kind |-> "default_vals_out_of_range",
            iters |-> iters, ids |-> ids, data |-> data]
      ELSE IF RealCols(c) \ p.readers # {} /\ chk.skip
      THEN [ctl |-> "finish", kind |-> "part_skip_default",
            iters |-> iters, ids |-> ids, data |-> chk.data]
      ELSE LET d == IF RealCols(c) \ p.readers # {} THEN chk.data ELSE data
           IN  IF p.readers = {}
               THEN [ctl |-> "default", kind |-> "all_default",
                     iters |-> iters, ids |-> ids, data |-> d]
               ELSE [ctl |-> "cont", kind |-> "", iters |-> iters, ids |-> ids, data |-> d]

\* a step that starts from a fresh sorter (used to test C30)
StartOfStepFreshSorter(iters, skips, data, off) ==
  [it |-> iters, sk |-> skips, rc |-> {}, arr |-> EmptyFn, data |-> <<>>,
   off |-> off, skp |-> skipped_page, rem |-> remain_columns,
   cache |-> cached_bloom_runtime_filter, exec |-> has_filter_executor,
   fill |-> FALSE, sel |-> None, ctl |-> "cont", kind |-> "", rows |-> 0,
   out |-> NoBlock, qry |-> 0, none |-> FALSE, bad |-> FALSE]

\* The record the page step starts from.
StartOfStep(iters, skips, data, off) ==
  [it |-> iters, sk |-> skips, rc |-> {}, arr |-> EmptyFn, data |-> data,
   off |-> off, skp |-> skipped_page, rem |-> remain_columns,
   cache |-> cached_bloom_runtime_filter, exec |-> has_filter_executor,
   fill |-> FALSE, sel |-> None, ctl |-> "cont", kind |-> "", rows |-> 0,
   out |-> NoBlock, qry |-> 0, none |-> FALSE, bad |-> FALSE]

\* The same step on iterators that have decoded every earlier page of every
\* column: no page was ever passed over, no skip count is pending.
DecodeAll(st, n) ==
  [st EXCEPT !.it = [x \in DOMAIN st.it |-> n], !.sk = [x \in DOMAIN st.sk |-> 0]]

\* a finish that keeps the offset and the skip counts of the part (used to test C31)
FinishProcessKeepsOffset ==
  /\ chunks' = Tail(chunks)
  /\ parts' = Tail(parts)
  /\ inited' = FALSE
  /\ array_iters' = EmptyFn
  /\ array_skip_pages' = array_skip_pages
  /\ offset_in_part' = offset_in_part
  /\ read_column_ids' = {}
  /\ cur' = NoPart
  /\ page_no' = 0
  /\ emitted' = 0
  /\ queries' = 0

\* finish_process(), lines 454-464
FinishProcess ==
  /\ chunks' = Tail(chunks)
  /\ parts' = Tail(parts)
  /\ inited' = FALSE
  /\ array_iters' = EmptyFn
  /\ array_skip_pages' = EmptyFn
  /\ offset_in_part' = 0
  /\ read_column_ids' = {}
  /\ cur' = NoPart
  /\ page_no' = 0
  /\ emitted' = 0
  /\ queries' = 0

\* The rows a block adds to output_data.
StagedRows(old, block) == IF AddBlock(old, block) = Some(block) THEN Len(block.rows) ELSE 0

\* What a process() call did: the return taken, the logical page it handled,
\* the fields before the call, the block it built and the outcome of the same
\* step with every page decoded.
StepRecord(kind, ctl, p, st, ref, block, first) ==
  [kind |-> kind, ctl |-> ctl,
   page |-> IF ctl \in {"skip", "emit"} THEN page_no + 1 ELSE 0,
   pageRows |-> IF ctl \in {"skip", "emit"} /\ page_no < Len(p.pages)
                THEN Len(p.pages[page_no + 1]) ELSE 0,
   rows |-> st.rows,
   offBefore |-> IF first THEN 0 ELSE offset_in_part,
   skpBefore |-> skipped_page, dataBefore |-> sorter,
   out |-> block, refCtl |-> ref.ctl, refOut |-> ref.out, part |-> p,
   total |-> emitted + StagedRows(output_data, block), partsBefore |-> parts,
   jumped |-> ~first /\ \E x \in st.rc \cap DOMAIN array_skip_pages :
                            array_skip_pages[x] > 0,
   firstCall |-> first, sawNone |-> st.none, decodeFailed |-> st.bad]

\* process() on the front part, whose readers yield p
ProcessPart(p) ==
  LET c == cfg IN
  IF p.agg
  THEN \* lines 708-713
       /\ output_data' = Some(AggBlock)
       /\ FinishProcess
       /\ last' = StepRecord("agg", "finish", p, StartOfStep(EmptyFn, EmptyFn, sorter, 0),
                             StartOfStep(EmptyFn, EmptyFn, sorter, 0), AggBlock, TRUE)
       /\ UNCHANGED << remain_columns, skipped_page, read_columns, sorter,
                       cached_bloom_runtime_filter, has_filter_executor, status >>
  ELSE IF ChunkIsEmpty(c, p) /\ ~inited
  THEN \* finish_process_with_empty_block(), lines 512-527
       /\ chunks' = Tail(chunks)
       /\ parts' = Tail(parts)
       /\ output_data' = AddBlock(output_data, EmptyBlock(p))
       /\ cur' = NoPart /\ page_no' = 0 /\ emitted' = 0 /\ queries' = 0
       /\ last' = StepRecord("empty_projection", "finish", p,
                             StartOfStep(EmptyFn, EmptyFn, sorter, 0),
                             StartOfStep(EmptyFn, EmptyFn, sorter, 0), EmptyBlock(p), TRUE)
       /\ UNCHANGED << remain_columns, skipped_page, offset_in_part, read_columns,
                       read_column_ids, sorter, inited, array_iters, array_skip_pages,
                       cached_bloom_runtime_filter, has_filter_executor, status >>
  ELSE
    LET first == ~inited
        skips(ini) == IF first THEN [x \in DOMAIN ini.iters |-> 0] ELSE array_skip_pages
        st0(ini)   == StartOfStep(ini.iters, skips(ini), ini.data,
                                  IF first THEN 0 ELSE offset_in_part)
    IN
    \E ini \in {IF first THEN InitPart(c, p, sorter)
                ELSE [ctl |-> "cont", kind |-> "", iters |-> array_iters,
                      ids |-> read_column_ids, data |-> sorter]} :
    \E st \in {IF ini.ctl = "cont" THEN RunPage(c, p, st0(ini), ini.ids)
               ELSE [st0(ini) EXCEPT !.ctl = ini.ctl, !.kind = ini.kind]} :
    \E ref \in {IF ini.ctl = "cont"
                THEN RunPage(c, p, DecodeAll(st0(ini), page_no), ini.ids)
                ELSE st} :
    CASE st.ctl = "finish" ->
           /\ FinishProcess
           /\ last' = StepRecord(st.kind, "finish", p, st, ref, NoBlock, first)
           /\ remain_columns' = st.rem
           /\ read_columns' = st.rc
           /\ sorter' = st.data
           /\ cached_bloom_runtime_filter' = st.cache
           /\ has_filter_executor' = st.exec
           /\ UNCHANGED << output_data, skipped_page, status >>
      [] st.ctl = "default" ->
           \* finish_process_with_default_values(), lines 467-509
           /\ FinishProcess
           /\ output_data' = AddBlock(output_data, DefaultValuesBlock(c, p))
           /\ last' = StepRecord(st.kind, "finish", p, st, ref,
                                 DefaultValuesBlock(c, p), first)
           /\ sorter' = st.data
           /\ UNCHANGED << remain_columns, skipped_page, read_columns,
                           cached_bloom_runtime_filter, has_filter_executor, status >>
      [] st.ctl \in {"panic", "error"} ->
           \* the call panics or returns Err: the scheduler fails the pipeline
           /\ status' = st.ctl
           /\ last' = StepRecord(st.kind, st.ctl, p, st, ref, NoBlock, first)
           /\ cur' = p
           /\ UNCHANGED << output_data, parts, chunks, remain_columns, skipped_page,
                           offset_in_part, read_columns, read_column_ids, sorter,
                           inited, array_iters, array_skip_pages,
                           cached_bloom_runtime_filter, has_filter_executor,
                           page_no, emitted, queries >>
      [] st.ctl \in {"skip", "emit"} ->
           /\ cur' = p
           /\ inited' = TRUE
           /\ read_column_ids' = ini.ids
           /\ array_iters' = st.it
           /\ array_skip_pages' = st.sk
           /\ read_columns' = st.rc
           /\ sorter' = st.data
           /\ offset_in_part' = st.off
           /\ skipped_page' = st.skp
           /\ remain_columns' = st.rem
           /\ cached_bloom_runtime_filter' = st.cache
           /\ has_filter_executor' = st.exec
           /\ output_data' = IF st.ctl = "emit" THEN AddBlock(output_data, st.out)
                             ELSE output_data
           /\ page_no' = IF st.kind = "nothing_read" THEN page_no ELSE page_no + 1
           /\ emitted' = emitted + StagedRows(output_data, st.out)
           /\ queries' = IF queries + st.qry > MaxPages THEN MaxPages + 1
                          ELSE queries + st.qry
           /\ last' = StepRecord(st.kind, st.ctl, p, st, ref, st.out, first)
           /\ UNCHANGED << parts, chunks, status >>

\* process(), lines 705-984, called after event() returned Sync; the readers
\* of a part that is opened yield one of choices
ProcessOn(choices) ==
  /\ status = "ok"
  /\ directive = "Sync"
  /\ directive' = "none"
  /\ UNCHANGED << hook, gb, mem, cfg, input, output, delivered >>
  /\ IF chunks = <<>>
     THEN UNCHANGED transformVars
     ELSE /\ \E p \in (IF inited THEN {cur} ELSE choices) : ProcessPart(p)
          /\ pushed' = pushed
          /\ staged' = IF output_data' # output_data
                        THEN <<Head(parts), page_no + 1>> ELSE staged

\* process() on parts every page of which decodes
Process == ProcessOn(PartChoices(cfg))

\* The scan driven by a scheduler, a source that finishes after its last part
\* and a downstream processor that consumes every block.
UpstreamDone == delivered = MaxParts /\ UpstreamFinish

Next ==
  \/ Event
  \/ Process
  \/ UpstreamPush
  \/ UpstreamDone
  \/ DownstreamNeed
  \/ DownstreamPull

Spec == Init /\ [][Next]_vars

\* The scan under fair scheduling: the executor keeps calling event() and,
\* after Sync, process(); the source delivers its parts and finishes; the
\* downstream processor keeps asking for blocks and consuming them.
\* Weak fairness of process(): the step is enabled exactly when event()
\* returned Sync on a scan that has not failed, so WF_vars(Process) is written
\* with that guard in the place of ENABLED <<Process>>_vars.
ProcessFairness ==
  []<>(~(status = "ok" /\ directive = "Sync")) \/ []<><<Process>>_vars

Fairness ==
  /\ WF_vars(Event)
  /\ ProcessFairness
  /\ WF_vars(UpstreamPush)
  /\ WF_vars(UpstreamDone)
  /\ WF_vars(DownstreamNeed)
  /\ WF_vars(DownstreamPull)

\* The plans of the fair scan: no virtual column and no top-K, no prewhere or
\* a prewhere on the sort column, no runtime filter or one on the other column.
LiveConfigs ==
  {c \in Configs : /\ c.nproj = NumProj /\ ~c.virt /\ ~c.topk.on
                   /\ c.pw.pcols \subseteq {SortCol}
                   /\ Len(c.blooms) <= 1
                   /\ \A i \in 1 .. Len(c.blooms) : c.blooms[i].col = SrcCol}

InitLive == Init /\ cfg \in LiveConfigs

SpecLive == InitLive /\ [][Next]_vars /\ Fairness

\* The scan on parts one page of which may fail to decode, on plans without
\* virtual columns: no prewhere or a prewhere on the sort column, with and
\* without top-K, with and without a runtime filter on the other column.
DecodeConfigs ==
  {c \in Configs : /\ c.nproj = NumProj /\ ~c.virt
                   /\ c.pw.pcols \subseteq {SortCol}
                   /\ \A i \in 1 .. Len(c.blooms) : c.blooms[i].col = SrcCol
                   /\ Len(c.blooms) <= 1}

FaultyPartChoices(c) ==
  PartChoices(c) \cup
    {[p EXCEPT !.bad = <<x, k>>] :
       p \in {q \in PartChoices(c) : ~q.agg}, x \in SrcFields(c), k \in 1 .. MaxPages}

ProcessFaulty == ProcessOn({p \in FaultyPartChoices(cfg) :
                             p.bad # NoBad => (p.bad[1] \in p.readers
                                               /\ p.bad[2] <= Len(p.pages))})

InitDecode == Init /\ cfg \in DecodeConfigs

NextDecode ==
  \/ Event
  \/ ProcessFaulty
  \/ UpstreamPush
  \/ UpstreamDone
  \/ DownstreamNeed
  \/ DownstreamPull

SpecDecode == InitDecode /\ [][NextDecode]_vars

\* ------------------------------------------------------------ refresh hook
\* refresh_hook.rs. A Result is Ok or the code of an ErrorCode.
MaxIndexPlans == 2   \* aggregating-index plans generated for one table

Ok == "Ok"
ErrCodes == {"LicenseKeyInvalid", "UnknownTable", "Internal"}
Results == {Ok} \cup ErrCodes

\* What the calls made by do_hook_refresh return during one run: get_table,
\* generate_refresh_index_plan (with the number of plans it generates),
\* generate_refresh_virtual_column_plan, get_max_threads, and one Result per
\* task (interpreter creation, execute2 and the executor of the plan). A call
\* that is not reached has the value Ok, a task that does not exist no value.
Runs(vc) ==
  { r \in [table : Results, index : Results, nidx : 0 .. MaxIndexPlans,
           vcplan : Results, threads : Results,
           tasks : SeqsUpTo(Results, MaxIndexPlans + 1)] :
      /\ r.table # Ok => (r.index = Ok /\ r.nidx = 0)
      /\ r.index # Ok => r.nidx = 0
      /\ (r.table # Ok \/ r.index # Ok \/ ~vc) => r.vcplan = Ok
      /\ (r.table # Ok \/ r.index # Ok \/ r.vcplan # Ok) => r.threads = Ok
      /\ Len(r.tasks) =
           IF r.table # Ok \/ r.index # Ok \/ r.vcplan # Ok \/ r.threads # Ok THEN 0
           ELSE r.nidx + (IF vc THEN 1 ELSE 0) }

\* do_hook_refresh(), lines 88-163: the Results the run r may end with. Every
\* `?` returns the first error; try_join_all returns the error of the task
\* that fails first.
DoHookRefresh(vc, r) ==
  IF r.table # Ok THEN {r.table}
  ELSE IF r.index # Ok THEN {r.index}
  ELSE IF vc /\ r.vcplan # Ok THEN {r.vcplan}
  ELSE IF r.threads # Ok THEN {r.threads}
  ELSE LET errs == {r.tasks[i] : i \in 1 .. Len(r.tasks)} \ {Ok}
       IN  IF errs = {} THEN {Ok} ELSE errs

\* The closure given to set_on_finished, lines 66-82, for the result of the
\* main pipeline and the result of do_hook_refresh.
OnFinishedCallback(may, result) ==
  IF may # Ok THEN may
  ELSE IF result = Ok THEN Ok
  ELSE IF result = "LicenseKeyInvalid" THEN Ok
  ELSE result

\* hook_refresh(), lines 53-85: nothing is installed on an empty pipeline nor
\* when the setting cannot be read.
HookRefresh ==
  /\ hook.pc = "new"
  /\ \E empty \in BOOLEAN, setting \in {"true", "false", "error"} :
       hook' = [hook EXCEPT
                  !.empty = empty,
                  !.vc = ~empty /\ setting = "true",
                  !.pc = IF empty THEN "no_callback"
                         ELSE IF setting = "error" THEN "failed"
                         ELSE "installed",
                  !.ret = IF empty THEN Ok
                          ELSE IF setting = "error" THEN "Internal"
                          ELSE Ok]
  /\ UNCHANGED << gb, mem, cfg, input, output, directive, delivered >>
  /\ UNCHANGED transformVars

\* The main pipeline finishes and runs the callback, lines 66-82.
OnFinished ==
  /\ hook.pc = "installed"
  /\ \E may \in Results :
       IF may # Ok
       THEN hook' = [hook EXCEPT !.pc = "returned", !.may = may,
                                 !.ret = OnFinishedCallback(may, Ok)]
       ELSE \E r \in Runs(hook.vc) : \E result \in DoHookRefresh(hook.vc, r) :
              hook' = [hook EXCEPT !.pc = "returned", !.may = may, !.run = r,
                                   !.ret = OnFinishedCallback(may, result)]
  /\ UNCHANGED << gb, mem, cfg, input, output, directive, delivered >>
  /\ UNCHANGED transformVars

InitHook == Init /\ cfg = EmptyProjection

NextHook ==
  \/ HookRefresh
  \/ OnFinished

SpecHook == InitHook /\ [][NextHook]_vars

\* ------------------------------------------------- partial group by
\* transform_group_by_partial.rs. A hash table holds a set of group keys; a
\* block is the sequence of the group keys of its rows.
MaxKeys == 3         \* distinct group keys
MaxBlockRows == 2    \* rows of one input block
MaxThreshold == 2    \* largest group_by_two_level_threshold explored
MaxBuckets == 2      \* buckets of a partitioned hash table

GroupKeys == 1 .. MaxKeys
GroupBlocks == SeqsUpTo(GroupKeys, MaxBlockRows)

\* The `?` of transform() that returns an error in a call, if any.
TransformFailures == {"none", "build_keys_state", "build_keys_iter", "convert_hashtable"}

\* the for loops of lines 126-128 and 131-133
RECURSIVE InsertKeys(_, _)
InsertKeys(keys, block) ==
  IF block = <<>> THEN keys
  ELSE InsertKeys(keys \cup {Head(block)}, Tail(block))

\* a conversion that waits for more keys than the threshold (used to test C32)
NeedsConvertAboveThreshold(support, threshold, table) ==
  support /\ table.kind = "HashTable" /\ Cardinality(table.keys) > threshold

\* lines 138-142. spilling_bytes_threshold_per_proc is usize::MAX (line 68):
\* bytes_len() of a table that exists is below it.
NeedsConvert(support, threshold, table) ==
  support /\ table.kind = "HashTable" /\ Cardinality(table.keys) >= threshold

\* transform(), lines 106-153, on the block `block`, with the `?` named by
\* fail returning an error if the call reaches it. std::mem::take (line 143)
\* leaves HashTable::default(), that is MovedOut (lines 49-53), in the field;
\* the table taken is dropped when convert_hashtable fails.
TransformOf(g, block, fail) ==
  LET entered == g.hash_table.kind
      call(result) == [op |-> "transform", result |-> result, entered |-> entered,
                       blocks |-> 0]
      inserted == [g.hash_table EXCEPT !.keys = InsertKeys(@, block)]
  IN  IF fail = "build_keys_state" THEN [g EXCEPT !.last = call("Err")]
      ELSE IF entered = "MovedOut" THEN [g EXCEPT !.pc = "panic", !.last = call("panic")]
      ELSE IF fail = "build_keys_iter" THEN [g EXCEPT !.last = call("Err")]
      ELSE IF NeedsConvert(g.support, g.convert_threshold, inserted)
      THEN IF fail = "convert_hashtable"
           THEN [g EXCEPT !.hash_table = [kind |-> "MovedOut", keys |-> {}],
                          !.last = call("Err")]
           ELSE [g EXCEPT !.hash_table = [kind |-> "PartitionedHashTable",
                                          keys |-> inserted.keys],
                          !.last = call("Ok")]
      ELSE [g EXCEPT !.hash_table = inserted, !.last = call("Ok")]

\* into_iter_tables(): the bucket of a key
BucketOf(k) == k % MaxBuckets

\* on_finish(), lines 155-180: the table is taken, one block per non-empty
\* table is returned.
OnFinishOf(g) ==
  LET entered == g.hash_table.kind
      keys    == g.hash_table.keys
      blocks  == IF entered = "HashTable" THEN (IF keys = {} THEN 0 ELSE 1)
                 ELSE Cardinality({BucketOf(k) : k \in keys})
  IN  IF entered = "MovedOut"
      THEN [g EXCEPT !.pc = "panic",
                     !.last = [op |-> "on_finish", result |-> "panic",
                               entered |-> entered, blocks |-> 0]]
      ELSE [g EXCEPT !.pc = "finished",
                     !.hash_table = [kind |-> "MovedOut", keys |-> {}],
                     !.last = [op |-> "on_finish", result |-> "Ok",
                               entered |-> entered, blocks |-> blocks]]

\* try_create(), lines 82-100: SUPPORT_PARTITIONED is a constant of the hash
\* method, convert_threshold the setting group_by_two_level_threshold;
\* create_hash_table and the settings may fail.
TryCreate ==
  /\ gb.pc = "new"
  /\ \/ gb' = [gb EXCEPT !.pc = "create_failed"]
     \/ \E support \in BOOLEAN, threshold \in 0 .. MaxThreshold :
          gb' = [gb EXCEPT !.pc = "created", !.support = support,
                           !.convert_threshold = threshold,
                           !.hash_table = [kind |-> "HashTable", keys |-> {}]]
  /\ UNCHANGED << hook, mem, cfg, input, output, directive, delivered >>
  /\ UNCHANGED transformVars

\* A call of transform(): one more block arrives before on_finish().
Transform ==
  /\ gb.pc = "created"
  /\ \E block \in GroupBlocks, fail \in TransformFailures :
       gb' = TransformOf(gb, block, fail)
  /\ UNCHANGED << hook, mem, cfg, input, output, directive, delivered >>
  /\ UNCHANGED transformVars

\* The call of on_finish(): at most one, after the calls of transform().
OnFinish ==
  /\ gb.pc = "created"
  /\ gb' = OnFinishOf(gb)
  /\ UNCHANGED << hook, mem, cfg, input, output, directive, delivered >>
  /\ UNCHANGED transformVars

InitGroupBy == Init /\ cfg = EmptyProjection

NextGroupBy ==
  \/ TryCreate
  \/ Transform
  \/ OnFinish

SpecGroupBy == InitGroupBy /\ [][NextGroupBy]_vars

\* ------------------------------------------------------- mmap allocator
\* mmap_allocator.rs, module linux. A live block is [size, align, owner]: the
\* layout it was last allocated or resized with, and the backend that holds
\* its memory, "mmap" or "inner" (the wrapped allocator).
MaxBlocks == 2             \* live blocks

THRESHOLD == 67108864      \* 64 << 20
PageSize == 4096           \* page_size(): sysconf(_SC_PAGE_SIZE)

Sizes == {1, THRESHOLD - 1, THRESHOLD, 2 * THRESHOLD}
Aligns == {1, PageSize, 2 * PageSize}
Layouts == [size : Sizes, align : Aligns]

Call(op, result, used, owner, copied, dst) ==
  [op |-> op, result |-> result, used |-> used, owner |-> owner,
   copied |-> copied, dst |-> dst]

\* The backend allocate, allocate_zeroed and deallocate choose for a layout,
\* lines 123-130, 135-142 and 147-154.
BackendOf(layout) ==
  IF layout.align > PageSize THEN "inner"
  ELSE IF layout.size >= THRESHOLD THEN "mmap"
  ELSE "inner"

\* The outcome of a call on allocator m: the blocks it leaves and its record.
\* A debug_assert! that fails panics in a build with debug assertions and is
\* absent from the others; a call that hands a block to the backend that does
\* not hold it is undefined behaviour, after which nothing is modelled.
Outcome(m, blocks, call, asserted) ==
  IF m.debug /\ ~asserted
  THEN [m EXCEPT !.pc = "panic", !.last = [call EXCEPT !.result = "panic"]]
  ELSE [m EXCEPT !.blocks = blocks, !.last = call,
                 !.pc = IF call.used \notin {"none", call.owner} THEN "ub" ELSE @]

Without(blocks, i) == [j \in 1 .. Len(blocks) - 1 |-> IF j < i THEN blocks[j] ELSE blocks[j + 1]]
Replace(blocks, i, b) == [blocks EXCEPT ![i] = b]
Block(layout, owner) == [size |-> layout.size, align |-> layout.align, owner |-> owner]

\* allocate(), lines 122-131, and allocate_zeroed(), lines 146-155
AllocateOf(m, layout, op, fails) ==
  IF fails THEN Outcome(m, m.blocks, Call(op, "Err", "none", "none", 0, 0), TRUE)
  ELSE Outcome(m, Append(m.blocks, Block(layout, BackendOf(layout))),
               Call(op, "Ok", "none", "none", 0, 0), TRUE)

\* deallocate(), lines 134-143, of block i with its current layout
DeallocateOf(m, i) ==
  LET b == m.blocks[i] IN
  Outcome(m, Without(m.blocks, i),
          Call("deallocate", "Ok", BackendOf(b), b.owner, 0, 0), TRUE)

\* grow(), lines 157-180, and grow_zeroed(), lines 182-205, of block i from
\* its current layout to new
GrowOf(m, i, new, op, fails) ==
  LET b == m.blocks[i] IN
  IF b.align > PageSize \/ (b.size < THRESHOLD /\ new.size < THRESHOLD)
  THEN \* self.allocator.grow / grow_zeroed
       IF fails THEN Outcome(m, m.blocks, Call(op, "Err", "inner", b.owner, 0, 0), TRUE)
       ELSE Outcome(m, Replace(m.blocks, i, Block(new, "inner")),
                    Call(op, "Ok", "inner", b.owner, 0, 0), TRUE)
  ELSE IF b.size >= THRESHOLD
  THEN \* mmap_grow, lines 71-94
       IF fails THEN Outcome(m, m.blocks, Call(op, "Err", "mmap", b.owner, 0, 0),
                             b.align = new.align)
       ELSE Outcome(m, Replace(m.blocks, i, Block(new, "mmap")),
                    Call(op, "Ok", "mmap", b.owner, 0, 0), b.align = new.align)
  ELSE \* mmap_alloc, copy_nonoverlapping, self.allocator.deallocate
       IF fails THEN Outcome(m, m.blocks, Call(op, "Err", "none", "none", 0, 0),
                             new.align <= PageSize)
       ELSE Outcome(m, Replace(m.blocks, i, Block(new, "mmap")),
                    Call(op, "Ok", "inner", b.owner, b.size, new.size),
                    new.align <= PageSize)

\* shrink(), lines 207-230, of block i from its current layout to new
ShrinkOf(m, i, new, fails) ==
  LET b == m.blocks[i] IN
  IF b.align > PageSize \/ (b.size < THRESHOLD /\ new.size < THRESHOLD)
  THEN \* self.allocator.shrink
       IF fails THEN Outcome(m, m.blocks, Call("shrink", "Err", "inner", b.owner, 0, 0), TRUE)
       ELSE Outcome(m, Replace(m.blocks, i, Block(new, "inner")),
                    Call("shrink", "Ok", "inner", b.owner, 0, 0), TRUE)
  ELSE IF new.size >= THRESHOLD
  THEN \* mmap_shrink, lines 97-117
       IF fails THEN Outcome(m, m.blocks, Call("shrink", "Err", "mmap", b.owner, 0, 0),
                             b.align = new.align)
       ELSE Outcome(m, Replace(m.blocks, i, Block(new, "mmap")),
                    Call("shrink", "Ok", "mmap", b.owner, 0, 0), b.align = new.align)
  ELSE \* self.allocator.allocate, copy_nonoverlapping, mmap_dealloc
       IF fails THEN Outcome(m, m.blocks, Call("shrink", "Err", "none", "none", 0, 0), TRUE)
       ELSE Outcome(m, Replace(m.blocks, i, Block(new, "inner")),
                    Call("shrink", "Ok", "mmap", b.owner, b.size, new.size), TRUE)

MemUnchanged ==
  /\ UNCHANGED << hook, gb, cfg, input, output, directive, delivered >>
  /\ UNCHANGED transformVars

\* MmapAllocator::new, lines 24-28, in a build with or without debug assertions
NewAllocator ==
  /\ mem.pc = "new"
  /\ \E debug \in BOOLEAN : mem' = [mem EXCEPT !.pc = "ready", !.debug = debug]
  /\ MemUnchanged

Allocate ==
  /\ mem.pc = "ready" /\ Len(mem.blocks) < MaxBlocks
  /\ \E layout \in Layouts, op \in {"allocate", "allocate_zeroed"}, fails \in BOOLEAN :
       mem' = AllocateOf(mem, layout, op, fails)
  /\ MemUnchanged

Deallocate ==
  /\ mem.pc = "ready"
  /\ \E i \in 1 .. Len(mem.blocks) : mem' = DeallocateOf(mem, i)
  /\ MemUnchanged

\* Allocator::grow: the new size is no smaller than the old one
Grow ==
  /\ mem.pc = "ready"
  /\ \E i \in 1 .. Len(mem.blocks), new \in Layouts,
        op \in {"grow", "grow_zeroed"}, fails \in BOOLEAN :
       /\ new.size >= mem.blocks[i].size
       /\ mem' = GrowOf(mem, i, new, op, fails)
  /\ MemUnchanged

\* Allocator::shrink: the new size is no larger than the old one
Shrink ==
  /\ mem.pc = "ready"
  /\ \E i \in 1 .. Len(mem.blocks), new \in Layouts, fails \in BOOLEAN :
       /\ new.size <= mem.blocks[i].size
       /\ mem' = ShrinkOf(mem, i, new, fails)
  /\ MemUnchanged

InitAllocator == Init /\ cfg = EmptyProjection

NextAllocator ==
  \/ NewAllocator
  \/ Allocate
  \/ Deallocate
  \/ Grow
  \/ Shrink

SpecAllocator == InitAllocator /\ [][NextAllocator]_vars

\* ------------------------------------------------------------- properties
\* A plan without prewhere predicate, top-K and runtime bloom filter.
NoPruning(c) == ~c.pw.on /\ ~c.topk.on /\ c.blooms = <<>>

\* The last process() call handled one page of an initialised part.
PageStep == last.ctl \in {"skip", "emit"} /\ last.kind # "nothing_read"

\* The last process() call popped the front part.
PartPopped == parts = Tail(last.partsBefore) /\ chunks = Tail(last.partsBefore)

\* The value the table holds in column x of row r of page pg of part p: a
\* column the part does not store holds its default value, and a virtual
\* column whose source the part does not store is Null.
TableVal(c, p, pg, x, r) ==
  IF x # VirtCol
  THEN IF x \in p.readers THEN Cell(pg, x, r) ELSE DefaultVal(c, x)
  ELSE IF VirtCol \in p.readers \/ SrcCol \in p.readers THEN Cell(pg, VirtCol, r)
  ELSE Null

\* C1: without prewhere predicate, top-K and runtime bloom filter, the blocks
\* emitted for a part (no aggregating-index part) hold as many rows as the
\* part: when the part is popped, the rows staged for it sum to nums_rows.
C1_RowCountConservation ==
  (last.ctl = "finish" /\ ~last.part.agg /\ NoPruning(cfg))
    => last.total = NumsRows(last.part)

C1_Witness ==
  /\ last.ctl = "finish" /\ last.kind = "exhausted" /\ NoPruning(cfg)
  /\ Len(last.part.pages) = 2 /\ last.total = 5

C3_TopKRejectedNeverEmitted ==
  (cfg.topk.on /\ (last.ctl = "emit" \/ last.kind = "all_default"))
    => \A i \in 1 .. Len(last.out.rows) :
         ~NeverMatchValue(cfg.topk, last.dataBefore, last.out.rows[i][SortCol])

\* C4: a page step on iterators that passed over earlier pages with skip
\* counts returns what the same step returns when every earlier page of every
\* column was decoded: the same outcome and the same block.
C4_SkipDecodeEquivalence ==
  (last.ctl \in {"skip", "emit"} \/ last.kind = "exhausted")
    => (last.refCtl = last.ctl /\ last.refOut = last.out)

C4_Witness ==
  /\ last.ctl = "emit" /\ last.jumped /\ last.page = 2
  /\ Len(last.out.rows) > 0 /\ last.refOut = last.out

\* C5: in every emitted block a projected column the part has no readers for
\* holds the column's default value in every row, also after prewhere
\* evaluation or a bloom filter's removal from remain_columns.
C5_DefaultColumnCompleteness ==
  (last.ctl = "emit" \/ last.kind = "all_default")
    => \A x \in RealCols(cfg) \ last.part.readers :
         \A i \in 1 .. Len(last.out.rows) : last.out.rows[i][x] = DefaultVal(cfg, x)

C5_Witness ==
  /\ last.ctl = "emit" /\ Len(last.out.rows) > 0
  /\ RealCols(cfg) \ last.part.readers # {}
  /\ cfg.pw.on /\ cached_bloom_runtime_filter.some
  /\ remain_columns # InitRemainColumns(cfg)

\* C6: with a prewhere predicate and neither top-K nor bloom filters, the
\* block emitted for a page consists of exactly the page's rows that satisfy
\* the predicate, in order; a page without such a row gives no block.
C6_ExactPrewhereSelection ==
  (PageStep /\ cfg.pw.on /\ ~cfg.topk.on /\ cfg.blooms = <<>>)
    => LET p    == last.part
           pg   == p.pages[last.page]
           want == SelectSeq([r \in 1 .. Len(pg) |-> r],
                             LAMBDA r : TableVal(cfg, p, pg, cfg.pw.fcol, r)
                                          \in cfg.pw.accept)
       IN  /\ last.out.offsets = [i \in 1 .. Len(want) |-> last.offBefore + want[i] - 1]
           /\ \A i \in 1 .. Len(want) : \A x \in RealCols(cfg) \cup {cfg.pw.fcol} :
                 last.out.rows[i][x] = TableVal(cfg, p, pg, x, want[i])
           /\ want = <<>> => (last.ctl = "skip" /\ ~output_data.some)

C6_Witness ==
  /\ PageStep /\ cfg.pw.on /\ ~cfg.topk.on /\ cfg.blooms = <<>>
  /\ last.pageRows = 4 /\ Len(last.out.rows) = 2
  /\ last.out.offsets = <<1, 2>>

\* C7: a process() call that handles a page, skipped or emitted, advances
\* offset_in_part by the page's row count before any filtering.
C7_OffsetAdvance ==
  PageStep => (offset_in_part = last.offBefore + last.pageRows
               /\ last.rows = last.pageRows)

C7_Witness ==
  /\ PageStep /\ last.ctl = "emit" /\ last.page = 2
  /\ Len(last.out.rows) < last.pageRows
  /\ offset_in_part = 5

\* C8: a part whose sort statistics the top-K bound excludes, or whose
\* default-value check says that the default row can never match, emits no
\* block, is popped, and leaves skipped_page as it was.
C8_PartLevelSkip ==
  LET p     == last.part
      iters == [x \in p.readers |-> 0]
      byStats    == cfg.topk.on /\ p.stats
                    /\ NeverMatch(cfg.topk, last.dataBefore, SortMinMax(p))
      byDefaults == RealCols(cfg) \ p.readers # {}
                    /\ CheckDefaultValues(cfg, p, iters, last.dataBefore).skip
  IN  (last.firstCall /\ ~p.agg /\ ~ChunkIsEmpty(cfg, p) /\ (byStats \/ byDefaults))
        => /\ last.out = NoBlock /\ ~output_data.some
           /\ PartPopped /\ ~inited
           /\ skipped_page = last.skpBefore

C8_Witness ==
  /\ last.kind = "part_skip_min_max" /\ PartPopped
  /\ last.partsBefore # <<>> /\ sorter # <<>>

\* C9: a page every row of which a bloom filter rejects gives no block, adds
\* one to skipped_page, advances offset_in_part by the page's rows, and keeps
\* the part: the following page is next.
C9_BloomRejectAllPage ==
  last.kind = "bloom_skip"
    => /\ last.out = NoBlock /\ ~output_data.some
       /\ skipped_page = last.skpBefore + 1
       /\ offset_in_part = last.offBefore + last.pageRows
       /\ parts = last.partsBefore /\ inited /\ cur = last.part
       /\ page_no = last.page

C9_Witness ==
  /\ last.kind = "bloom_skip" /\ last.page = 1 /\ last.pageRows = 2
  /\ Len(last.part.pages) = 2

\* C10: a virtual column whose source column the part does not store (and
\* that has no pages of its own) is Null in every row of every emitted block,
\* for an all-default part and for a part processed page by page.
C10_VirtualOfDefaultSourceIsNull ==
  (cfg.virt /\ (last.ctl = "emit" \/ last.kind = "all_default")
     /\ SrcCol \notin last.part.readers /\ VirtCol \notin last.part.readers)
    => \A i \in 1 .. Len(last.out.rows) : last.out.rows[i][VirtCol] = Null

\* The scan with a downstream processor that may finish at any time and a
\* source that may finish at any time, on plans without top-K, bloom filters
\* and virtual columns.
PortConfigs ==
  {c \in Configs : c.blooms = <<>> /\ ~c.virt /\ ~c.topk.on /\ c.pw.pcols \subseteq {SortCol}}

InitPorts == Init /\ cfg \in PortConfigs

NextPorts ==
  \/ Event
  \/ Process
  \/ UpstreamPush
  \/ UpstreamFinish
  \/ DownstreamNeed
  \/ DownstreamPull
  \/ DownstreamFinish

SpecPorts == InitPorts /\ [][NextPorts]_vars

\* A step of process(): the only step that takes the directive from Sync.
ProcessStep == directive = "Sync" /\ directive' = "none"

\* <<part, page>> a before <<part, page>> b
TagLess(a, b) == a[1] < b[1] \/ (a[1] = b[1] /\ a[2] < b[2])

\* C11 (as stated): an event() call that follows an event() call directly
\* returns the same directive and changes nothing: not output_data, parts,
\* chunks, and not the state of either port.
C11_EventNoSideEffects ==
  [][Event => EventOf(PortState') = PortState']_vars

\* C11 (amended): an event() call that follows an event() call directly
\* returns the same directive and leaves output_data, parts, chunks, the
\* output port and the data and finished state of the input port as they
\* are; only the input port's need-data flag may change.
C11_EventTwiceSameButNeedFlag ==
  [][Event => LET a == PortState'
                  b == EventOf(a)
              IN  /\ b.directive = a.directive
                  /\ b.output_data = a.output_data
                  /\ b.parts = a.parts /\ b.chunks = a.chunks
                  /\ b.output = a.output
                  /\ b.input.data = a.input.data
                  /\ b.input.finished = a.input.finished]_vars

C11_Witness ==
  /\ directive = "NeedConsume" /\ last = NoStep
  /\ output.data.some /\ ~output_data.some /\ input.need
  /\ EventOf(PortState).input.need = FALSE

\* C12: event() returns Finished only if the output port is finished, or the
\* input port is finished with no staged block, no pending chunk and no
\* unread block on the input port.
C12_FinishedOnlyWhenDone ==
  [][(Event /\ directive' = "Finished")
       => \/ output.finished
          \/ (input.finished /\ ~output_data.some /\ chunks = <<>>
              /\ ~input.data.some)]_vars

C12_Witness ==
  /\ directive = "Finished" /\ input.finished /\ output.finished
  /\ delivered > 0 /\ chunks = <<>> /\ ~output_data.some /\ pushed # NoTag

\* C13: event() returns NeedData only with no staged block, an empty chunk
\* queue, no block on the input port and an unfinished input port, and it has
\* then set need-data on the input port.
C13_NeedDataOnlyWhenIdle ==
  [][(Event /\ directive' = "NeedData")
       => /\ ~output_data.some /\ chunks = <<>>
          /\ ~input.data.some /\ ~input.finished
          /\ input'.need]_vars

C13_Witness ==
  /\ directive = "NeedData" /\ input.need /\ last = NoStep
  /\ delivered > 0 /\ pushed # NoTag

\* C14: Sync is returned only with output_data empty and an output port that
\* can accept a block; a block reaches the output port only when the port can
\* accept it and it is the staged one; process() never runs on a staged block;
\* a staged block leaves output_data only by being pushed.
C14_StagedBlockNeverOverwritten ==
  [][/\ (Event /\ directive' = "Sync") => (~output_data.some /\ OutputCanPush)
     /\ (directive' = "Sync") => ~output_data'.some
     /\ ProcessStep => ~output_data.some
     /\ (output'.data # output.data /\ output'.data.some)
          => (OutputCanPush /\ output_data.some /\ output'.data = output_data)
     /\ (output_data.some /\ output_data' # output_data)
          => (output_data' = None /\ output'.data = output_data)]_vars

C14_Witness ==
  /\ directive = "NeedConsume" /\ last = NoStep
  /\ output.data.some /\ ~output_data.some /\ chunks # <<>>
  /\ pushed[2] = 2

\* C15: a process() call handles at most one page of the front part: it pops
\* at most the front part, moves the page position by at most one, leaves no
\* iterator beyond that page, advances offset_in_part by at most that page's
\* rows, stages at most one block and touches neither port.
C15_OneUnitOfWork ==
  [][ProcessStep
       => /\ parts # <<>> /\ chunks # <<>>
          /\ parts' \in {parts, Tail(parts)}
          /\ chunks' \in {chunks, Tail(chunks)}
          /\ input' = input /\ output' = output
          /\ output_data' # output_data => (~output_data.some /\ output_data'.some)
          /\ \A x \in DOMAIN array_iters' : array_iters'[x] <= page_no'
          /\ parts' = parts
               => /\ page_no' \in {page_no, page_no + 1}
                  /\ offset_in_part' <= offset_in_part +
                       (IF page_no < Len(cur'.pages)
                        THEN Len(cur'.pages[page_no + 1]) ELSE 0)]_vars

C15_Witness ==
  /\ last.ctl = "emit" /\ page_no = 2 /\ directive = "none"
  /\ output_data.some /\ last.jumped

\* C16: the part queue only loses its front part or, when it is empty, takes
\* the batch of the input port; blocks are staged for the front part and
\* staged and pushed in increasing <<part, page>> order.
C16_PartAndPageOrder ==
  [][/\ parts' # parts
          => \/ (parts # <<>> /\ parts' = Tail(parts))
             \/ (parts = <<>> /\ chunks = <<>> /\ input.data.some
                 /\ parts' = input.data.v)
     /\ pushed' # pushed => TagLess(pushed, pushed')
     /\ (staged' # staged /\ staged' # NoTag)
          => (staged = NoTag /\ staged'[1] = Head(parts) /\ TagLess(pushed, staged'))]_vars

C16_Witness ==
  /\ pushed = <<2, 2>> /\ output.data.some /\ delivered = 2

\* C17: with the output port finished, event() finishes the input port and
\* returns Finished; it pushes nothing and keeps output_data and the queues.
C17_DownstreamCancellation ==
  [][(Event /\ output.finished)
       => /\ input'.finished /\ directive' = "Finished"
          /\ output' = output /\ output_data' = output_data
          /\ parts' = parts /\ chunks' = chunks]_vars

C17_Witness ==
  /\ directive = "Finished" /\ output.finished /\ input.finished
  /\ output_data.some /\ chunks # <<>>

\* C18 (as stated): with the input port finished, the next event() call
\* finishes the output port and returns Finished.
C18_UpstreamFinishObservedAtOnce ==
  [][(Event /\ input.finished) => (output'.finished /\ directive' = "Finished")]_vars

\* C18 (amended): with the input port finished, event() finishes the output
\* port and returns Finished once nothing is buffered: the output port can
\* accept, no block is staged, the chunk queue is empty and the input port
\* holds no block. Until then it returns NeedConsume or Sync.
C18_UpstreamFinishAfterDrain ==
  [][(Event /\ input.finished /\ ~output.finished)
       => IF OutputCanPush /\ ~output_data.some /\ chunks = <<>> /\ ~input.data.some
          THEN output'.finished /\ directive' = "Finished"
          ELSE ~output'.finished /\ directive' \in {"NeedConsume", "Sync"}]_vars

C18_Witness ==
  /\ directive = "Finished" /\ output.finished /\ input.finished
  /\ pushed[1] = 2 /\ chunks = <<>>

\* C19: while one part is processed, get_bloom_runtime_filter_with_id is
\* called at most once.
C19_BloomProviderAskedOncePerPart == queries <= 1

\* C20: prewhere_columns and remain_columns are disjoint and together hold
\* every column index of src_schema, in every state.
C20_ColumnPartition ==
  /\ PrewhereColumns(cfg) \cap remain_columns = {}
  /\ PrewhereColumns(cfg) \cup remain_columns = SrcFields(cfg)

\* C21: a process() call in which an iterator yields a page that fails to
\* decode returns the decode error: it does not panic and stages no block.
C21_DecodeErrorReturned ==
  last.decodeFailed
    => /\ last.ctl = "error" /\ status = "error"
       /\ last.out = NoBlock /\ ~output_data.some

\* C22: skipped_page never decreases; it grows by exactly 1 in a process()
\* call that skips a page (top-K pre-check, prewhere evaluation, top-K row
\* check or bloom filter) and is unchanged by every other step: emitted
\* pages, part-level skips, part completion, event() and the ports.
C22_SkippedPageCountsSkips ==
  [][/\ skipped_page' \in {skipped_page, skipped_page + 1}
     /\ (skipped_page' = skipped_page + 1) <=> (ProcessStep /\ last'.ctl = "skip")
     /\ (ProcessStep /\ last'.ctl = "skip")
          => last'.kind \in {"topk_page_skip", "prewhere_skip", "topk_row_skip",
                             "bloom_skip"}]_vars

C22_Witness ==
  /\ skipped_page = 2 /\ last.ctl = "finish" /\ last.skpBefore = 2
  /\ parts = <<>> /\ delivered = 2

\* The rows of page pg of part p that satisfy the prewhere predicate (all of
\* them without one) and that every runtime filter on a column of the schema
\* lets pass.
BloomSurvivors(c, p, pg) ==
  {r \in 1 .. Len(pg) :
     /\ c.pw.on => TableVal(c, p, pg, c.pw.fcol, r) \in c.pw.accept
     /\ \A i \in 1 .. Len(c.blooms) :
          c.blooms[i].col \in SrcFields(c)
            => TableVal(c, p, pg, c.blooms[i].col, r) \in c.blooms[i].keys}

\* C24: a page that reaches the bloom filter and of which no row passes every
\* filter (also when no filter rejects every row by itself, and when only the
\* intersection with the prewhere selection is empty) is skipped: no block,
\* skipped_page one more, no remaining column decoded in that call.
C24_EmptyBloomIntersectionSkips ==
  (/\ PageStep /\ cached_bloom_runtime_filter.some
   /\ last.kind \notin {"topk_page_skip", "prewhere_skip", "topk_row_skip"}
   /\ BloomSurvivors(cfg, last.part, last.part.pages[last.page]) = {})
    => /\ last.ctl = "skip" /\ last.out = NoBlock
       /\ skipped_page = last.skpBefore + 1

\* C23: when the main pipeline finished successfully, the callback installed
\* by hook_refresh returns Ok, whatever do_hook_refresh returned.
C23_RefreshErrorsIgnored ==
  (hook.pc = "returned" /\ hook.may = Ok) => hook.ret = Ok

\* C25: a process() call in which an iterator of the part has no more pages
\* ends the part: part and chunk are popped, the per-part state is cleared
\* and no block is built.
C25_ExhaustionEndsPart ==
  last.sawNone
    => /\ last.ctl = "finish" /\ PartPopped
       /\ ~inited /\ array_iters = EmptyFn /\ array_skip_pages = EmptyFn
       /\ last.out = NoBlock

\* The columns that are read by Step 5 only: neither prewhere columns nor
\* columns of a runtime filter.
RemainOnly(c) ==
  InitRemainColumns(c) \ {c.blooms[i].col : i \in 1 .. Len(c.blooms)}

C27_DefaultSortValueFoldedOnce ==
  LET p == last.part
  IN  (/\ cfg.topk.on /\ cfg.nproj > 0 /\ ~p.agg /\ SortCol \notin p.readers
       /\ last.ctl \in {"skip", "emit", "finish"}
       /\ last.kind \notin {"part_skip_default", "part_skip_min_max"})
        => IF last.firstCall
           THEN sorter = PushColumn(cfg.topk, last.dataBefore,
                                    [i \in 1 .. NumsRows(p) |-> DefaultVal(cfg, SortCol)])
           ELSE sorter = last.dataBefore

\* C28 (as stated): for a part in which no projected column has page readers
\* and which the default-value check lets pass, the initialising process()
\* call stages one block of nums_rows rows built from default values (the
\* virtual column Null), pops part and chunk, runs no page step and leaves
\* skipped_page unchanged.
C28_NoProjectedReaders ==
  LET p   == last.part
      chk == CheckDefaultValues(cfg, p, [x \in p.readers |-> 0], last.dataBefore)
  IN  (/\ last.firstCall /\ ~p.agg /\ cfg.nproj > 0 /\ p.readers \cap RealCols(cfg) = {}
       /\ ~chk.skip /\ ~chk.panic)
        => /\ output_data.some
           /\ Len(output_data.v.rows) = NumsRows(p)
           /\ \A i \in 1 .. NumsRows(p) : \A x \in SrcFields(cfg) :
                output_data.v.rows[i][x] = (IF x = VirtCol THEN Null
                                            ELSE DefaultVal(cfg, x))
           /\ PartPopped /\ ~inited /\ page_no = 0
           /\ last.page = 0 /\ last.rows = 0
           /\ skipped_page = last.skpBefore

\* C28 (amended): for a part in which no column, projected or virtual, has
\* page readers (array_iters is empty after the initialisation) and which the
\* default-value check lets pass, the initialising process() call stages one
\* block of nums_rows rows holding the default value in every projected
\* column and Null in the virtual column, pops part and chunk, runs no page
\* step and leaves skipped_page unchanged.
C28_AllDefaultPart ==
  LET p   == last.part
      chk == CheckDefaultValues(cfg, p, EmptyFn, last.dataBefore)
  IN  (/\ last.firstCall /\ ~p.agg /\ cfg.nproj > 0 /\ p.readers = {}
       /\ ~chk.skip /\ ~chk.panic)
        => /\ output_data.some
           /\ Len(output_data.v.rows) = NumsRows(p)
           /\ \A i \in 1 .. NumsRows(p) : \A x \in SrcFields(cfg) :
                output_data.v.rows[i][x] = (IF x = VirtCol THEN Null
                                            ELSE DefaultVal(cfg, x))
           /\ PartPopped /\ ~inited /\ page_no = 0
           /\ last.page = 0 /\ last.rows = 0
           /\ skipped_page = last.skpBefore

C28_Witness ==
  /\ last.firstCall /\ last.part.readers = {} /\ cfg.nproj > 0 /\ ~last.part.agg
  /\ cfg.virt /\ cfg.pw.on
  /\ output_data.some /\ Len(output_data.v.rows) = 5 /\ PartPopped

\* C29: in a page step the top-K sorter is offered the sort values of those
\* rows of the page that satisfy the prewhere predicate, in row order, and of
\* no other row: a page skipped by the top-K pre-check or without a matching
\* row, and a step without prewhere predicate, leave the sorter unchanged.
C29_SorterFedWithPassingRowsOnly ==
  (PageStep /\ cfg.topk.on /\ SortCol \in last.part.readers)
    => LET p       == last.part
           pg      == p.pages[last.page]
           passing == SelectSeq([r \in 1 .. Len(pg) |-> r],
                                LAMBDA r : TableVal(cfg, p, pg, cfg.pw.fcol, r)
                                             \in cfg.pw.accept)
           col     == ColumnOf(pg, SortCol)
       IN  IF cfg.pw.on /\ last.kind # "topk_page_skip"
           THEN sorter = PushColumnWithSelection(cfg.topk, last.dataBefore, col,
                                                 passing).data
           ELSE sorter = last.dataBefore

C29_Witness ==
  /\ PageStep /\ cfg.topk.on /\ cfg.pw.on /\ last.ctl = "emit"
  /\ last.pageRows = 4 /\ last.dataBefore = <<>> /\ sorter = <<1>>

\* The sorter holding new is at least as tight as the one holding old: it
\* holds no fewer values, and once full its bound is the old bound or better.
AtLeastAsTight(tk, old, new) ==
  /\ Len(new) >= Len(old)
  /\ SorterFull(tk, old) => (SorterFull(tk, new) /\ ~Better(tk.asc, old[1], new[1]))

\* C30: the sorter of the transform is never reset, replaced or loosened:
\* every step leaves it at least as tight as it was, across pages and parts
\* and whatever way a part ends, and only process() changes it.
C30_SorterNeverLoosened ==
  [][/\ AtLeastAsTight(cfg.topk, sorter, sorter')
     /\ ~cfg.topk.on => sorter' = <<>>
     /\ ~ProcessStep => sorter' = sorter]_vars

C30_Witness ==
  /\ cfg.topk.on /\ sorter = <<2>> /\ last.dataBefore = <<1>>
  /\ last.partsBefore = <<2>> /\ last.firstCall

\* C31: whenever a process() call finishes a part, by whatever path (an
\* exhausted iterator, a part-level skip, the all-default block, the empty
\* projection, an aggregating-index part), the per-part state is clear for the
\* next part: inited is false, array_iters and array_skip_pages are empty,
\* offset_in_part is 0 and read_column_ids is empty.
C31_PartStateClearedOnFinish ==
  last.ctl = "finish"
    => /\ PartPopped
       /\ ~inited /\ array_iters = EmptyFn /\ array_skip_pages = EmptyFn
       /\ offset_in_part = 0 /\ read_column_ids = {}

\* a part of two pages was read to its end and another part follows
C31_Witness ==
  /\ last.ctl = "finish" /\ last.kind = "exhausted" /\ last.offBefore > 0
  /\ last.skpBefore > 0 /\ parts # <<>>
  /\ ~inited /\ offset_in_part = 0 /\ array_skip_pages = EmptyFn

\* C33: column alignment. Between two process() calls on an initialised part,
\* every column with an open iterator has consumed, together with the pages
\* its skip count still owes, exactly the pages of the part handled so far:
\* the next array decoded from any column is that of the current logical page.
C33_ColumnAlignment ==
  (inited /\ status = "ok")
    => \A x \in DOMAIN array_iters :
         array_iters[x] + array_skip_pages[x] = page_no

\* the second page of a part is emitted after its first page was skipped: a
\* column read only for the emitted page passed over the skipped one
C33_Witness ==
  /\ inited /\ status = "ok" /\ page_no = 2 /\ last.ctl = "emit" /\ last.jumped
  /\ \E x \in DOMAIN array_iters : array_iters[x] = 2 /\ array_skip_pages[x] = 0
  /\ Cardinality(DOMAIN array_iters) >= 2

\* Step 1 of the next page step reads the sort column with next(): line 793-795
TopKPreCheckReads ==
  /\ Cardinality(PrewhereColumns(cfg)) > 1 /\ cfg.topk.on
  /\ SortCol \in DOMAIN array_iters

\* C34: whenever the top-K pre-check is about to read the sort column with
\* next(), the skip count of the sort column is 0, so that next(), which does
\* not look at the skip count, yields the current logical page.
C34_PreCheckReadsCurrentPage ==
  (inited /\ status = "ok" /\ TopKPreCheckReads)
    => /\ array_skip_pages[SortCol] = 0
       /\ array_iters[SortCol] = page_no

\* the pre-check ran on the second page after the first page was skipped
C34_Witness ==
  /\ inited /\ status = "ok" /\ TopKPreCheckReads
  /\ PageStep /\ last.page = 2 /\ last.skpBefore > 0
  /\ array_iters[SortCol] = 2 /\ array_skip_pages[SortCol] = 0
  /\ \E x \in DOMAIN array_skip_pages : array_skip_pages[x] > 0

\* C36: no data is lost when upstream finishes. The output port is finished
\* by event() only, and when it is finished because the input port is, no
\* part or chunk is pending, no block is staged and none waits on either
\* port. With the input port finished a pending part leaves the queue only
\* by a process() call that pops the front part, and a staged block leaves
\* output_data only to the output port.
C36_NoLossOnUpstreamFinish ==
  [][/\ (~output.finished /\ output'.finished)
          => /\ input.finished
             /\ parts = <<>> /\ chunks = <<>> /\ ~output_data.some
             /\ ~input.data.some /\ ~output.data.some
             /\ parts' = <<>> /\ chunks' = <<>> /\ ~output_data'.some
     /\ (input.finished /\ parts' # parts)
          => (ProcessStep /\ parts # <<>> /\ parts' = Tail(parts))
     /\ (input.finished /\ chunks' # chunks)
          => (ProcessStep /\ chunks # <<>> /\ chunks' = Tail(chunks))
     /\ (input.finished /\ output_data.some /\ output_data' # output_data)
          => (output.data = None /\ output'.data = output_data)]_vars

\* upstream has finished while two parts were pending: the block of the first
\* page has been pushed, the output port is not finished
C36_Witness ==
  /\ input.finished /\ ~output.finished /\ Len(parts) = 2 /\ chunks = parts
  /\ directive = "NeedConsume" /\ output.data.some /\ pushed = <<1, 1>>

\* C37: with top-K, prewhere predicate and runtime filters active, a page
\* step never tightens the top-K bound by a row that a runtime filter
\* eliminates on the same page: every value the step brings into the sorter
\* is the sort value of a row of the page that satisfies the predicate and
\* every filter.
C37_BoundFromSurvivorsOnly ==
  (/\ PageStep /\ cfg.topk.on /\ cfg.pw.on /\ cached_bloom_runtime_filter.some
   /\ SortCol \in last.part.readers)
    => LET p    == last.part
           pg   == p.pages[last.page]
           col  == ColumnOf(pg, SortCol)
           kept == BloomSurvivors(cfg, p, pg)
       IN  \A i \in 1 .. Len(sorter) :
             \/ \E j \in 1 .. Len(last.dataBefore) : last.dataBefore[j] = sorter[i]
             \/ \E r \in kept : col[r] = sorter[i]

\* C35: progress. Under fair scheduling, with a source that delivers its
\* parts and finishes and a downstream processor that consumes every block, a
\* scan that does not fail pops every part and event() returns Finished.
C35_ScanTerminates ==
  <>(\/ status # "ok"
     \/ /\ directive = "Finished" /\ output.finished
        /\ delivered = MaxParts /\ parts = <<>> /\ chunks = <<>>)

\* The last call was a transform() that returned Ok.
TransformReturnedOk == gb.last.op = "transform" /\ gb.last.result = "Ok"

\* C32: after every transform() that returns Ok, under a hash method that
\* supports partitioning a table that is still single-level holds fewer than
\* convert_threshold keys, and a table converted in the call holds at least
\* convert_threshold keys; a partitioned table stays partitioned; under a
\* method without support the table stays single-level; transform() returns
\* no block.
C32_ConvertAtThreshold ==
  TransformReturnedOk
    => LET n == Cardinality(gb.hash_table.keys) IN
       /\ gb.last.blocks = 0
       /\ gb.hash_table.kind \in {"HashTable", "PartitionedHashTable"}
       /\ (gb.support /\ gb.hash_table.kind = "HashTable") => n < gb.convert_threshold
       /\ (gb.last.entered = "HashTable" /\ gb.hash_table.kind = "PartitionedHashTable")
            => (gb.support /\ n >= gb.convert_threshold)
       /\ gb.last.entered = "PartitionedHashTable"
            => gb.hash_table.kind = "PartitionedHashTable"
       /\ ~gb.support => gb.hash_table.kind = "HashTable"

\* the call in which the second key arrives converts a table of threshold 2
C32_Witness ==
  /\ TransformReturnedOk /\ gb.support /\ gb.convert_threshold = 2
  /\ gb.last.entered = "HashTable" /\ gb.hash_table.kind = "PartitionedHashTable"
  /\ Cardinality(gb.hash_table.keys) = 2

\* C38: the hash table is never MovedOut when transform() or on_finish() is
\* entered, whatever calls of transform() came before and however they ended.
C38_NeverMovedOutOnEntry ==
  gb.last.op \in {"transform", "on_finish"} => gb.last.entered # "MovedOut"

\* C39: every live block is held by the backend its current layout names
\* (mmap exactly when the size is at least 64 MiB and the alignment at most
\* the page size), and every call that resizes or releases a block hands it
\* to the backend that holds it.
C39_BackendConsistency ==
  /\ \A i \in 1 .. Len(mem.blocks) :
       mem.blocks[i].owner = "mmap"
         <=> (mem.blocks[i].size >= THRESHOLD /\ mem.blocks[i].align <= PageSize)
  /\ mem.last.used \in {"none", mem.last.owner}

\* C40: the copy_nonoverlapping of shrink() copies no more bytes than the
\* size of the block it copies into.
C40_ShrinkCopyFits ==
  (mem.last.op = "shrink" /\ mem.last.result = "Ok") => mem.last.copied <= mem.last.dst

====
